---- MODULE Spec2Model ----
(***************************************************************************)
(* Verification model of gigaverse-ai-site.                                *)
(*                                                                         *)
(* Part I   : the documentation crawler, in its two versions               *)
(*            (scripts/build_docs_index.mjs, variant "mjs", and the older   *)
(*            build_docs_index.mjs kept as unnamed/part_000, variant        *)
(*            "legacy").                                                   *)
(* Part II  : the /api/chat handler of api/chat.js.                        *)
(***************************************************************************)
EXTENDS Integers, Sequences, FiniteSets, TLC

VARIABLES
    \* ---- crawler (main) ----
    variant,     \* which version of the crawl script runs
    pc,          \* position of main(): loop / fetching / sleeping / done / aborted
    visited,     \* the visited set (`visited` / `seen`)
    queue,       \* the FIFO queue of URLs
    out,         \* chunks gathered so far (`out` / `allChunks`)
    artifact,    \* what was written to docs_index.json
    written,     \* whether docs_index.json was written
    cur,         \* the URL whose fetch is in flight
    fetched,     \* history: URLs whose fetch was started
    refetched,   \* history: a fetch was started for a URL fetched before
    fetches,     \* history: number of fetches started
    sinceFetch,  \* history: "none" | "fetched" | "delayed" since the last fetch start
    polite,      \* history: every fetch but the first started after a delay
    last,        \* history: what the last completed loop iteration did
    \* ---- /api/chat handler ----
    hpc,          \* position of the handler: idle / fetchIndex / groq / responded
    now,          \* Date.now(), in ms
    rateLimitMap, \* the rate limiter's Map: entries [ip, ts] in insertion order
    reqQuestion,         \* the question of the request being served
    clientChunks, \* the candidate chunks sent with the request (body.chunks)
    indexFetch,   \* what fetchDocsIndexFromSite met when it was called for this request
    picked,       \* the sources picked for the generator
    usedIndex,    \* history: docs_index.json was loaded for this request
    proposed,     \* history: the citations the generator proposed
    response,     \* the response sent
    allowedLog,   \* history: the requests the limiter allowed within the last window
    \* ---- helper functions of the crawl scripts, applied on their own ----
    call,         \* the function applied and its argument
    returned,     \* what it returned, in each version of the script
    \* ---- the chat page (app.js and its earlier versions) ----
    script,        \* which version of the page script runs
    ready,         \* state.ready / state.docsLoaded: "loading" | "yes" | "no"
    inputValue,    \* what the question input holds
    inputDisabled, \* dom.input.disabled
    sendDisabled,  \* dom.sendBtn.disabled (askBtn.disabled)
    inFlight,      \* the fetches of /api/chat that have not settled
    outcome        \* history: how the last submitted question ended

crawlVars == <<variant, pc, visited, queue, out, artifact, written, cur,
               fetched, refetched, fetches, sinceFetch, polite, last>>

chatVars == <<hpc, now, rateLimitMap, reqQuestion, clientChunks, indexFetch, picked, usedIndex,
              proposed, response, allowedLog>>

pureVars == <<call, returned>>

pageVars == <<script, ready, inputValue, inputDisabled, sendDisabled, inFlight, outcome>>

vars == <<crawlVars, chatVars, pureVars, pageVars>>

----------------------------------------------------------------------------
(* Bounds of the model *)

\* most hrefs on one fetched page
MaxLinks == 2
\* most chunks one fetched page yields
MaxChunks == 1

----------------------------------------------------------------------------
(* Sequences *)

Range(s) == {s[i] : i \in 1..Len(s)}

SeqsUpTo(S, n) == UNION {[1..k -> S] : k \in 0..n}

Front(s) == SubSeq(s, 1, Len(s) - 1)

\* Array.from(new Set(s)): first occurrences, in order
RECURSIVE Uniq(_)
Uniq(s) ==
    IF s = <<>> THEN <<>>
    ELSE LET f == Uniq(Front(s))
             x == s[Len(s)]
         IN IF x \in Range(f) THEN f ELSE Append(f, x)

\* lexicographic order on sequences of character codes (localeCompare <= 0)
RECURSIVE LexLeq(_, _)
LexLeq(a, b) ==
    IF a = <<>> THEN TRUE
    ELSE IF b = <<>> THEN FALSE
    ELSE IF a[1] < b[1] THEN TRUE
    ELSE IF a[1] > b[1] THEN FALSE
    ELSE LexLeq(Tail(a), Tail(b))

\* Math.min, Math.max
Min(a, b) == IF a < b THEN a ELSE b
Max(a, b) == IF a > b THEN a ELSE b

----------------------------------------------------------------------------
(* URLs: what `new URL(...)` exposes.  pathname = "/" + path joined by "/" *)
(* followed by `slashes` trailing "/".                                     *)

Url(h, p, sl, q, f) == [host |-> h, path |-> p, slashes |-> sl, search |-> q, hash |-> f]

\* the value returned for a rejected URL
NULL == Url("<null>", <<>>, 0, "", "")

ALLOWED_HOST == "glhfers.gitbook.io"

\* first path segments s for which ("/" + s).startsWith(ALLOWED_PREFIX)
ALLOWED_PREFIX == {"gigaverse", "gigaverse-old"}

START_URL == Url(ALLOWED_HOST, <<"gigaverse">>, 0, "", "")

\* safety limit on pages, set small through the MAX_PAGES environment knob
MAX_PAGES == 4

\* u.pathname.startsWith(ALLOWED_PREFIX)
PathStartsWithPrefix(u) == Len(u.path) >= 1 /\ u.path[1] \in ALLOWED_PREFIX

\* u.pathname.endsWith("/") && u.pathname !== "/"
EndsWithSlashNotRoot(u) == u.slashes > 0

(* An href attribute. kind: "abs" (absolute URL u), "frag" (#fragment),     *)
(* "rel" (relative path of one segment, u.path), "mailto", "js",           *)
(* "bad" (not parseable), "empty".                                         *)
Href(k, u) == [kind |-> k, u |-> u]

\* new URL(href, base); NULL stands for the TypeError it throws
Resolve(href, base) ==
    CASE href.kind = "abs"  -> href.u
      [] href.kind = "frag" -> [base EXCEPT !.hash = href.u.hash]
      [] href.kind = "rel"  ->
            Url(base.host,
                (IF base.slashes > 0
                   THEN base.path \o [i \in 1..(base.slashes - 1) |-> ""]
                   ELSE IF base.path = <<>> THEN <<>> ELSE Front(base.path))
                  \o href.u.path,
                0, "", "")
      [] href.kind = "js"   -> Url("", <<"void">>, 0, "", "")
      [] href.kind = "mailto" -> Url("", <<"someone">>, 0, "", "")
      [] OTHER -> NULL

----------------------------------------------------------------------------
(* scripts/build_docs_index.mjs *)

normalizeUrlMjs(raw, baseUrl) ==
    LET u == Resolve(raw, baseUrl)
    IN IF u = NULL THEN NULL
       ELSE IF u.host # ALLOWED_HOST THEN NULL
       ELSE IF ~PathStartsWithPrefix(u) THEN NULL
       ELSE [u EXCEPT !.hash = "", !.search = "",
                      !.slashes = IF EndsWithSlashNotRoot(u) THEN 1 ELSE @]

\* the per-anchor step of extractLinks: NULL when the anchor adds nothing
linkOfMjs(href, pageUrl) ==
    IF href.kind = "empty" THEN NULL
    ELSE IF href.kind \in {"mailto", "js"} THEN NULL
    ELSE normalizeUrlMjs(href, pageUrl)

----------------------------------------------------------------------------
(* unnamed/part_000 (the older build_docs_index.mjs) *)

normalizeUrlLegacy(u) ==
    IF u = NULL THEN NULL
    ELSE [u EXCEPT !.hash = "",
                   !.slashes = IF u.slashes > 0 THEN @ - 1 ELSE @]

\* faulty variant: the host is not compared
isAllowedAnyHost(u) ==
    IF u = NULL THEN FALSE
    ELSE IF ~PathStartsWithPrefix(u) THEN FALSE
    ELSE TRUE

isAllowed(u) ==
    IF u = NULL THEN FALSE
    ELSE IF u.host # ALLOWED_HOST THEN FALSE
    ELSE IF ~PathStartsWithPrefix(u) THEN FALSE
    ELSE TRUE

linkOfLegacy(href, baseUrl) ==
    IF href.kind = "empty" THEN NULL
    ELSE IF href.kind = "frag" THEN NULL
    ELSE IF href.kind = "mailto" THEN NULL
    ELSE LET abs == Resolve(href, baseUrl)
         IN IF abs = NULL THEN NULL
            ELSE LET n == normalizeUrlLegacy(abs)
                 IN IF n = NULL THEN NULL
                    ELSE IF isAllowed(n) THEN n ELSE NULL

----------------------------------------------------------------------------
(* extractLinks, both versions: the Set of accepted links, in first-seen order *)

linkOf(v, href, pageUrl) ==
    IF v = "mjs" THEN linkOfMjs(href, pageUrl) ELSE linkOfLegacy(href, pageUrl)

\* faulty variant: a malformed href ends the loop over the anchors
extractLinksUntilBad(v, hrefs, pageUrl) ==
    LET stop == IF \E i \in 1..Len(hrefs) : hrefs[i].kind = "bad"
                  THEN (CHOOSE i \in 1..Len(hrefs) :
                          /\ hrefs[i].kind = "bad"
                          /\ \A j \in 1..(i - 1) : hrefs[j].kind # "bad") - 1
                  ELSE Len(hrefs)
    IN Uniq(SelectSeq([i \in 1..stop |-> linkOf(v, hrefs[i], pageUrl)],
                      LAMBDA l : l # NULL))

extractLinks(v, hrefs, pageUrl) ==
    Uniq(SelectSeq([i \in 1..Len(hrefs) |-> linkOf(v, hrefs[i], pageUrl)],
                   LAMBDA l : l # NULL))

\* faulty variant: links are pushed whether visited or not
enqueueLinksAll(q, links, vis) == q \o links

\* faulty variant: new links go to the head of the queue (depth-first)
enqueueLinksFront(q, links, vis) == SelectSeq(links, LAMBDA l : l \notin vis) \o q

\* for (const l of links) if (!visited.has(l)) queue.push(l)
enqueueLinks(q, links, vis) == q \o SelectSeq(links, LAMBDA l : l \notin vis)

----------------------------------------------------------------------------
(* Text labels (titles, section headings) are sequences of character codes. *)

\* page titles and headings a fetched page may carry
TitlePool == {<<1, 2>>}
SectionPool == {<<1>>}

\* inferSectionFromUrl: the first path segment after "gigaverse", capitalised;
\* "Overview" (code 15) when there is none
SegmentLabel(seg) ==
    CASE seg = "page-341044" -> <<16, 3>>
      [] seg = "page-1837297" -> <<16, 1>>
      [] seg = "c" -> <<3>>
      [] seg = "blog" -> <<2, 12>>
      [] seg = "gigaverse-old" -> <<7, 15>>
      [] OTHER -> <<>>

inferSectionFromUrl(u) ==
    LET idx == IF \E i \in 1..Len(u.path) : u.path[i] = "gigaverse"
                 THEN CHOOSE i \in 1..Len(u.path) :
                        /\ u.path[i] = "gigaverse"
                        /\ \A j \in 1..(i - 1) : u.path[j] # "gigaverse"
                 ELSE 0
        after == SelectSeq(SubSeq(u.path, idx + 1, Len(u.path)), LAMBDA s : s # "")
    IN IF after = <<>> THEN <<15>> ELSE SegmentLabel(after[1])

\* a chunk id of the legacy version, `page-${hash(pageUrl)}-${hash(section)}-${idx}`:
\* the hashed inputs stand for the hashes
ChunkId(u, sec, i) == [sha |-> "", url |-> u, section |-> sec, idx |-> i]

\* `gb-${stableId(`${url}#${i}`)}`: the first 10 hex digits of the SHA-1.
\* SHA-1 of "https://glhfers.gitbook.io/gigaverse/page-341044#0" and of
\* "https://glhfers.gitbook.io/gigaverse/page-1837297#0" both start with
\* 154c57d265; for the other inputs of the model the inputs stand for the hash.
stableId(u, i) ==
    IF i = 0 /\ u.host = ALLOWED_HOST /\ u.slashes = 0 /\ u.search = "" /\ u.hash = ""
         /\ u.path \in {<<"gigaverse", "page-341044">>, <<"gigaverse", "page-1837297">>}
      THEN [sha |-> "154c57d265", url |-> NULL, section |-> <<>>, idx |-> 0]
      ELSE [sha |-> "", url |-> u, section |-> <<>>, idx |-> i]

\* main (mjs): chunks.forEach((chunkText, i) => out.push({...}))
chunksOfMjs(page, u) ==
    [i \in 1..Len(page.blocks) |->
        [id |-> stableId(u, i - 1), title |-> page.title,
         section |-> inferSectionFromUrl(u), url |-> u, text |-> i]]

\* pageToChunks (legacy): one chunk per retained section block
chunksOfLegacy(page, u) ==
    [i \in 1..Len(page.blocks) |->
        [id |-> ChunkId(u, page.blocks[i], 0), title |-> page.title,
         section |-> page.blocks[i], url |-> u, text |-> i]]

chunksOf(v, page, u) ==
    IF v = "mjs" THEN chunksOfMjs(page, u) ELSE chunksOfLegacy(page, u)

\* const uniq = new Map(); for (const c of allChunks) uniq.set(c.id, c)
RECURSIVE uniqById(_)
uniqById(cs) ==
    IF cs = <<>> THEN <<>>
    ELSE LET f == uniqById(Front(cs))
             c == cs[Len(cs)]
         IN IF \E i \in 1..Len(f) : f[i].id = c.id
              THEN [i \in 1..Len(f) |-> IF f[i].id = c.id THEN c ELSE f[i]]
              ELSE Append(f, c)

\* (a.title + a.section).localeCompare(b.title + b.section) <= 0
sortKeyLeq(a, b) == LexLeq(a.title \o a.section, b.title \o b.section)

\* out.sort(cmp): a stable sort
RECURSIVE sortOut(_)
sortOut(cs) ==
    IF cs = <<>> THEN <<>>
    ELSE LET f == sortOut(Front(cs))
             c == cs[Len(cs)]
             \* c goes after the last element that does not sort after it
             pos == IF \E i \in 1..Len(f) : sortKeyLeq(f[i], c)
                      THEN CHOOSE i \in 1..Len(f) :
                             /\ sortKeyLeq(f[i], c)
                             /\ \A j \in (i + 1)..Len(f) : ~sortKeyLeq(f[j], c)
                      ELSE 0
         IN SubSeq(f, 1, pos) \o <<c>> \o SubSeq(f, pos + 1, Len(f))

\* what main() writes to docs_index.json
writtenArtifact(v, chunks) ==
    IF v = "mjs" THEN chunks ELSE sortOut(uniqById(chunks))

----------------------------------------------------------------------------
(* The crawl: main() of both versions *)

InScopeA == Url(ALLOWED_HOST, <<"gigaverse", "page-341044">>, 0, "", "")
InScopeB == Url(ALLOWED_HOST, <<"gigaverse", "page-1837297">>, 0, "", "")

\* the hrefs a fetched page may carry
HrefPool ==
    { Href("abs", InScopeA),
      Href("abs", [InScopeA EXCEPT !.hash = "s1"]),
      Href("abs", [InScopeA EXCEPT !.search = "utm_source=x"]),
      Href("abs", InScopeB),
      Href("abs", [InScopeB EXCEPT !.slashes = 1]),
      Href("abs", [InScopeB EXCEPT !.slashes = 2]),
      Href("abs", Url("evil.example", <<"gigaverse", "page-341044">>, 0, "", "")),
      Href("abs", Url(ALLOWED_HOST, <<"blog", "c">>, 0, "", "")),
      Href("frag", Url("", <<>>, 0, "", "top")),
      Href("mailto", NULL),
      Href("bad", NULL) }

\* what one successful fetch returns: the page, and whether extracting its
\* content throws
Pages ==
    [title : TitlePool, blocks : SeqsUpTo(SectionPool, MaxChunks),
     hrefs : SeqsUpTo(HrefPool, MaxLinks), throws : BOOLEAN]

\* the position on the page of the first anchor that yields link l
firstAnchor(v, hrefs, pageUrl, l) ==
    CHOOSE i \in 1..Len(hrefs) :
        /\ linkOf(v, hrefs[i], pageUrl) = l
        /\ \A j \in 1..(i - 1) : linkOf(v, hrefs[j], pageUrl) # l

\* history of one iteration: the URL, the outcome, the links pushed, the
\* chunks gathered, and for each pushed link the position of its first anchor
NoIteration ==
    [url |-> NULL, outcome |-> "none", pushed |-> <<>>, chunks |-> <<>>, firstAt |-> <<>>]

\* faulty variant: the page cap is not tested
loopConditionNoCap == Len(queue) > 0

\* while (queue.length > 0 && visited.size < MAX_PAGES)
loopCondition == Len(queue) > 0 /\ Cardinality(visited) < MAX_PAGES

\* faulty variant: the visited set is not consulted
skipUrlNoVisited(url, vis) == url = NULL

\* if (!url || visited.has(url)) continue
skipUrl(url, vis) == url = NULL \/ url \in vis

CrawlInit ==
    /\ variant \in {"mjs", "legacy"}
    /\ pc = "loop"
    /\ visited = {}
    /\ queue = <<START_URL>>
    /\ out = <<>>
    /\ artifact = <<>>
    /\ written = FALSE
    /\ cur = NULL
    /\ fetched = {}
    /\ refetched = FALSE
    /\ fetches = 0
    /\ sinceFetch = "none"
    /\ polite = TRUE
    /\ last = NoIteration

\* queue.shift(); an already visited URL is dropped, a new one is marked
\* visited and its fetch starts
Dequeue ==
    /\ pc = "loop"
    /\ loopCondition
    /\ LET url == Head(queue)
       IN /\ queue' = Tail(queue)
          /\ IF skipUrl(url, visited)
               THEN /\ last' = [NoIteration EXCEPT !.url = url, !.outcome = "skip"]
                    /\ UNCHANGED <<pc, visited, cur, fetched, refetched, fetches, sinceFetch, polite>>
               ELSE /\ visited' = visited \cup {url}
                    /\ pc' = "fetching"
                    /\ cur' = url
                    /\ fetched' = fetched \cup {url}
                    /\ refetched' = (refetched \/ url \in fetched)
                    /\ fetches' = fetches + 1
                    /\ polite' = (polite /\ sinceFetch # "fetched")
                    /\ sinceFetch' = "fetched"
                    /\ UNCHANGED last
    /\ UNCHANGED <<variant, out, artifact, written>>

\* faulty variant: the fetch is not wrapped in try/catch, a failure ends the run
FetchFailFatal ==
    /\ pc = "fetching"
    /\ pc' = "aborted"
    /\ last' = [NoIteration EXCEPT !.url = cur, !.outcome = "fetchfail"]
    /\ UNCHANGED <<variant, visited, queue, out, artifact, written, cur,
                   fetched, refetched, fetches, sinceFetch, polite>>

\* the fetch throws (HTTP status, timeout, network): catch, log, continue
FetchFail ==
    /\ pc = "fetching"
    /\ pc' = "loop"
    /\ last' = [NoIteration EXCEPT !.url = cur, !.outcome = "fetchfail"]
    /\ UNCHANGED <<variant, visited, queue, out, artifact, written, cur,
                   fetched, refetched, fetches, sinceFetch, polite>>

\* the fetch returns a page whose extraction succeeds: chunks are gathered,
\* links discovered and enqueued, then the politeness sleep starts
FetchOk ==
    /\ pc = "fetching"
    /\ \E page \in Pages :
        /\ ~page.throws
        /\ LET chunks == chunksOf(variant, page, cur)
               links == extractLinks(variant, page.hrefs, cur)
               fresh == SelectSeq(links, LAMBDA l : l \notin visited)
           IN /\ out' = out \o chunks
              /\ queue' = enqueueLinks(queue, links, visited)
              /\ last' = [url |-> cur, outcome |-> "ok",
                          pushed |-> fresh,
                          chunks |-> chunks,
                          firstAt |-> [i \in 1..Len(fresh) |->
                                         firstAnchor(variant, page.hrefs, cur, fresh[i])]]
    /\ pc' = "sleeping"
    /\ UNCHANGED <<variant, visited, artifact, written, cur, fetched, refetched, fetches,
                   sinceFetch, polite>>

\* faulty variant: neither version catches the extraction failure
ExtractThrowsFatal ==
    /\ pc = "fetching"
    /\ \E page \in Pages :
        /\ page.throws
        /\ pc' = "aborted"
        /\ last' = [NoIteration EXCEPT !.url = cur, !.outcome = "parsefail"]
    /\ UNCHANGED <<variant, visited, queue, out, artifact, written, cur,
                   fetched, refetched, fetches, sinceFetch, polite>>

\* the fetch returns a page whose extraction throws.  mjs has no try around
\* extraction: the rejection reaches main().catch, which exits with status 1.
\* legacy catches it around pageToChunks and goes on to extractLinks.
ExtractThrows ==
    /\ pc = "fetching"
    /\ \E page \in Pages :
        /\ page.throws
        /\ IF variant = "mjs"
             THEN /\ pc' = "aborted"
                  /\ last' = [NoIteration EXCEPT !.url = cur, !.outcome = "parsefail"]
                  /\ UNCHANGED queue
             ELSE LET links == extractLinks(variant, page.hrefs, cur)
                      fresh == SelectSeq(links, LAMBDA l : l \notin visited)
                  IN /\ pc' = "sleeping"
                     /\ queue' = enqueueLinks(queue, links, visited)
                     /\ last' = [url |-> cur, outcome |-> "parsefail",
                                 pushed |-> fresh,
                                 chunks |-> <<>>,
                                 firstAt |-> [i \in 1..Len(fresh) |->
                                                firstAnchor(variant, page.hrefs, cur, fresh[i])]]
    /\ UNCHANGED <<variant, visited, out, artifact, written, cur, fetched, refetched, fetches,
                   sinceFetch, polite>>

\* await sleep(FETCH_DELAY_MS) returns
Sleep ==
    /\ pc = "sleeping"
    /\ pc' = "loop"
    /\ sinceFetch' = "delayed"
    /\ UNCHANGED <<variant, visited, queue, out, artifact, written, cur,
                   fetched, refetched, fetches, polite, last>>

\* the loop condition is false: the collection is written
Finish ==
    /\ pc = "loop"
    /\ ~loopCondition
    /\ artifact' = writtenArtifact(variant, out)
    /\ written' = TRUE
    /\ pc' = "done"
    /\ UNCHANGED <<variant, visited, queue, out, cur, fetched, refetched, fetches, sinceFetch,
                   polite, last>>

----------------------------------------------------------------------------
(* Properties of the crawl *)

InScope(u) == u.host = ALLOWED_HOST /\ PathStartsWithPrefix(u)

\* normal form with respect to the running version's own normalizeUrl
IsNormalForm(v, u) ==
    IF v = "mjs" THEN normalizeUrlMjs(Href("abs", u), u) = u
    ELSE normalizeUrlLegacy(u) = u

\* C3: no URL is fetched twice in a run: a fetch starts only for a URL that
\* was not visited, the URL is in the visited set while its fetch is in flight,
\* and every URL ever fetched stays visited.
C3_FetchedAtMostOnce ==
    /\ ~refetched
    /\ fetched \subseteq visited
    /\ (pc = "fetching" => cur \in visited)
    /\ fetches = Cardinality(fetched)

\* C3 witness: a URL that was fetched before is dequeued again and skipped
C3_Witness == last.outcome = "skip" /\ last.url \in fetched

\* progress measure of main(): pages still allowed, then the position inside
\* the iteration, then the queue length, compared lexicographically
CrawlRank ==
    <<MAX_PAGES - Cardinality(visited),
      CASE pc = "fetching" -> 3 [] pc = "sleeping" -> 2 [] pc = "loop" -> 1 [] OTHER -> 0,
      Len(queue)>>

RankLess(a, b) ==
    \/ a[1] < b[1]
    \/ a[1] = b[1] /\ a[2] < b[2]
    \/ a[1] = b[1] /\ a[2] = b[2] /\ a[3] < b[3]

\* C4: the crawl has no infinite run: every step of main() strictly lowers a
\* measure that cannot fall below <<0, 0, 0>> (the only waits are the fetch and
\* the sleep, which return), and at the loop head the run ends at once when
\* the queue is empty or the visited set holds MAX_PAGES.
C4_Terminates ==
    /\ [][RankLess(CrawlRank', CrawlRank)]_vars
    /\ [](\A i \in 1..3 : CrawlRank[i] >= 0)
    /\ [][(pc = "loop" /\ (Len(queue) = 0 \/ Cardinality(visited) >= MAX_PAGES))
            => pc' = "done"]_vars

\* C4 witness: the run ended on the page cap with URLs still queued
C4_Witness == pc = "done" /\ Cardinality(visited) = MAX_PAGES /\ Len(queue) > 0

\* C5: the visited set never holds more than MAX_PAGES URLs and no more than
\* MAX_PAGES fetches are started.
C5_VisitedBounded == Cardinality(visited) <= MAX_PAGES /\ fetches <= MAX_PAGES

\* C5 witness: the MAX_PAGES-th fetch failed, after MAX_PAGES fetches in all
C5_Witness == fetches = MAX_PAGES /\ last.outcome = "fetchfail" /\ pc = "loop"

\* C6: a failed fetch adds no chunk and no link and returns to the loop head;
\* a run that leaves the loop has written the artifact.
C6_FetchFailureNotFatal ==
    /\ [][(pc = "fetching" /\ last'.outcome = "fetchfail")
            => (pc' = "loop" /\ out' = out /\ queue' = queue /\ ~written')]_vars
    /\ [](pc = "done" => (written /\ artifact = writtenArtifact(variant, out)))

\* C6 witness: the last fetch of the run failed and the artifact, holding the
\* chunks of other pages, was written
C6_Witness == pc = "done" /\ last.outcome = "fetchfail" /\ written /\ Len(artifact) > 0

\* C7: an extraction failure on a fetched page does not abort the crawl.
C7_ExtractionFailureNotFatal == last.outcome = "parsefail" => pc # "aborted"

\* C8 (as claimed): when extraction of a page throws, no link of that page is
\* added to the queue.
C8_NoLinksAfterThrow ==
    [][(pc = "fetching" /\ last'.outcome = "parsefail") => queue' = queue]_vars

\* C8 (amended): when extraction throws the page adds no chunk; the version
\* that catches the failure (legacy) still discovers the page's links and
\* appends the in-scope, unvisited ones before sleeping; the version that does
\* not catch it (mjs) ends the run and adds none.
C8_LinksAfterThrow ==
    [][(pc = "fetching" /\ last'.outcome = "parsefail")
         => /\ out' = out
            /\ IF variant = "legacy"
                 THEN /\ pc' = "sleeping"
                      /\ queue' = queue \o last'.pushed
                      /\ \A i \in 1..Len(last'.pushed) :
                            /\ InScope(last'.pushed[i])
                            /\ last'.pushed[i] \notin visited
                 ELSE pc' = "aborted" /\ queue' = queue]_vars

\* C8 witness: extraction threw and links of that page were enqueued
C8_Witness == last.outcome = "parsefail" /\ Len(last.pushed) > 0 /\ pc = "sleeping"

\* C9: every fetch but the first starts after a politeness delay has elapsed
\* since the fetch before it.
C9_DelayBetweenFetches == polite

\* C10: every queued URL is in scope and in normal form.
C10_QueuedInScopeNormalized ==
    \A i \in 1..Len(queue) : InScope(queue[i]) /\ IsNormalForm(variant, queue[i])

\* two URLs that differ at most in the fragment, in trailing slashes, or in
\* tracking parameters of the query
TrackingQueries == {"", "utm_source=x"}

SamePage(u, w) ==
    /\ u.host = w.host
    /\ u.path = w.path
    /\ (u.search = w.search \/ {u.search, w.search} \subseteq TrackingQueries)

\* C13: in-scope URLs that differ only in the fragment, a trailing slash or
\* tracking parameters have one canonical form, so the visited set (and the
\* queue it is filled from) never holds two of them.
C13_OneCanonicalForm ==
    /\ \A u, w \in visited : SamePage(u, w) => u = w
    /\ \A i \in 1..Len(queue) : \A w \in visited : SamePage(queue[i], w) => queue[i] = w

C20_UniqueIds ==
    written => \A i, j \in 1..Len(artifact) : artifact[i].id = artifact[j].id => i = j

\* C11: the crawl is breadth-first in first-discovery order: the links of a
\* page are appended to the tail of the queue, without the visited ones and
\* without repeats, in the order of their first anchors on the page; the URL
\* whose fetch starts is the head of the queue and was not visited, and a
\* URL is dropped from the head without a fetch only if it was visited.
C11_BreadthFirstOrder ==
    /\ [][(pc = "fetching" /\ pc' = "sleeping")
            => /\ queue' = queue \o last'.pushed
               /\ \A i \in 1..Len(last'.pushed) :
                     /\ last'.pushed[i] \notin visited
                     /\ \A j \in 1..(i - 1) :
                           /\ last'.pushed[j] # last'.pushed[i]
                           /\ last'.firstAt[j] < last'.firstAt[i]]_vars
    /\ [][(pc = "loop" /\ pc' = "fetching")
            => (cur' = Head(queue) /\ cur' \notin visited /\ queue' = Tail(queue))]_vars
    /\ [][(pc = "loop" /\ pc' = "loop")
            => (Head(queue) \in visited \cup {NULL} /\ queue' = Tail(queue))]_vars

\* C11 witness: a page pushed two links behind URLs that were already queued
C11_Witness == pc = "sleeping" /\ Len(last.pushed) = 2 /\ Len(queue) > 3

----------------------------------------------------------------------------
(* Part II: api/chat.js.  Strings are sequences of one-character strings.   *)

LowerLetters ==
    <<"a", "b", "c", "d", "e", "f", "g", "h", "i", "j", "k", "l", "m",
      "n", "o", "p", "q", "r", "s", "t", "u", "v", "w", "x", "y", "z">>
UpperLetters ==
    <<"A", "B", "C", "D", "E", "F", "G", "H", "I", "J", "K", "L", "M",
      "N", "O", "P", "Q", "R", "S", "T", "U", "V", "W", "X", "Y", "Z">>
Digits == {"0", "1", "2", "3", "4", "5", "6", "7", "8", "9"}
Whitespace == {" ", "\n", "\t"}

\* String.prototype.toLowerCase, one character
toLowerChar(c) ==
    IF \E i \in 1..26 : UpperLetters[i] = c
      THEN LowerLetters[CHOOSE i \in 1..26 : UpperLetters[i] = c]
      ELSE c

toLowerCase(s) == [i \in 1..Len(s) |-> toLowerChar(s[i])]

\* String.prototype.trim
RECURSIVE trimStart(_)
trimStart(s) ==
    IF s # <<>> /\ s[1] \in Whitespace THEN trimStart(Tail(s)) ELSE s

RECURSIVE trimEnd(_)
trimEnd(s) ==
    IF s # <<>> /\ s[Len(s)] \in Whitespace THEN trimEnd(Front(s)) ELSE s

trim(s) == trimEnd(trimStart(s))

\* .replace(/\s+/g, " ")
RECURSIVE collapseSpaces(_)
collapseSpaces(s) ==
    IF s = <<>> THEN <<>>
    ELSE LET r == collapseSpaces(Tail(s))
         IN IF s[1] \in Whitespace
              THEN IF r # <<>> /\ r[1] = " " THEN r ELSE <<" ">> \o r
              ELSE <<s[1]>> \o r

\* normalize: lower-case, [^a-z0-9\s] to a space, whitespace runs to one
\* space, trim
normalize(s) ==
    LET lower == toLowerCase(s)
        plain == [i \in 1..Len(lower) |->
                    IF \/ lower[i] \in Range(LowerLetters)
                       \/ lower[i] \in Digits
                       \/ lower[i] \in Whitespace
                      THEN lower[i] ELSE " "]
    IN trim(collapseSpaces(plain))

\* String.prototype.includes
includes(hay, needle) ==
    \E i \in 1..(Len(hay) - Len(needle) + 1) :
        SubSeq(hay, i, i + Len(needle) - 1) = needle

\* String.prototype.startsWith
startsWith(s, prefix) ==
    Len(prefix) <= Len(s) /\ SubSeq(s, 1, Len(prefix)) = prefix

\* String.prototype.split(" ")
RECURSIVE splitSpace(_)
splitSpace(s) ==
    IF \E i \in 1..Len(s) : s[i] = " "
      THEN LET i == CHOOSE k \in 1..Len(s) :
                        s[k] = " " /\ \A j \in 1..(k - 1) : s[j] # " "
           IN <<SubSeq(s, 1, i - 1)>> \o splitSpace(SubSeq(s, i + 1, Len(s)))
      ELSE <<s>>

\* clampText: s.length > max ? s.slice(0, max) : s
clampText(t, max) == IF Len(t) > max THEN SubSeq(t, 1, max) ELSE t

\* isSocialMessage: the exact greetings
socialExact ==
    { <<"h", "i">>,
      <<"h", "i", "i">>,
      <<"h", "i", "i", "i">>,
      <<"h", "e", "l", "l", "o">>,
      <<"h", "e", "y">>,
      <<"h", "e", "y", "y">>,
      <<"h", "e", "y", "y", "y">>,
      <<"y", "o">>,
      <<"s", "u", "p">>,
      <<"g", "o", "o", "d", " ", "m", "o", "r", "n", "i", "n", "g">>,
      <<"g", "o", "o", "d", " ", "a", "f", "t", "e", "r", "n", "o", "o", "n">>,
      <<"g", "o", "o", "d", " ", "e", "v", "e", "n", "i", "n", "g">>,
      <<"g", "m">>,
      <<"g", "n">>,
      <<"h", "o", "w", " ", "a", "r", "e", " ", "y", "o", "u">>,
      <<"h", "o", "w", " ", "r", " ", "u">>,
      <<"h", "o", "w", " ", "y", "o", "u", " ", "d", "o", "i", "n", "g">>,
      <<"w", "h", "a", "t", " ", "a", "r", "e", " ", "y", "o", "u">>,
      <<"w", "h", "o", " ", "a", "r", "e", " ", "y", "o", "u">>,
      <<"w", "h", "a", "t", " ", "i", "s", " ", "t", "h", "i", "s">>,
      <<"h", "e", "l", "p">>,
      <<"s", "t", "a", "r", "t">> }

starters ==
    { <<"h", "i">>,
      <<"h", "e", "l", "l", "o">>,
      <<"h", "e", "y">>,
      <<"y", "o">>,
      <<"g", "m">>,
      <<"s", "u", "p">> }

gameWords ==
    { <<"f", "i", "s", "h", "i", "n", "g">>,
      <<"c", "r", "a", "f", "t">>,
      <<"c", "r", "a", "f", "t", "i", "n", "g">>,
      <<"e", "g", "g">>,
      <<"e", "g", "g", "s">>,
      <<"g", "i", "g", "l">>,
      <<"g", "i", "g", "l", "i", "n", "g">>,
      <<"d", "u", "n", "g", "e", "o", "n">>,
      <<"t", "r", "a", "d", "e">>,
      <<"m", "a", "r", "k", "e", "t">>,
      <<"g", "i", "g", "a", "m", "a", "r", "k", "e", "t">>,
      <<"d", "r", "o", "p", "s">>,
      <<"b", "o", "s", "s">>,
      <<"g", "e", "a", "r">>,
      <<"p", "o", "t", "i", "o", "n">>,
      <<"p", "o", "t", "i", "o", "n", "s">> }

howAreYouVariants ==
    { <<"h", "o", "w", " ", "a", "r", "e", " ", "y", "o", "u">>,
      <<"h", "o", "w", " ", "r", " ", "u">>,
      <<"h", "o", "w", " ", "y", "o", "u">> }

gameSignal ==
    { <<"f", "i", "s", "h", "i", "n", "g">>,
      <<"c", "r", "a", "f", "t">>,
      <<"e", "g", "g">>,
      <<"d", "u", "n", "g", "e", "o", "n">>,
      <<"t", "r", "a", "d", "e">>,
      <<"g", "i", "g", "a", "m", "a", "r", "k", "e", "t">>,
      <<"p", "o", "t", "i", "o", "n">>,
      <<"d", "r", "o", "p", "s">> }

\* isProgressionIntent: the trigger phrases
triggers ==
    { <<"w", "h", "a", "t", " ", "s", "h", "o", "u", "l", "d", " ", "i", " ", "d", "o">>,
      <<"w", "h", "a", "t", " ", "s", "h", "o", "u", "l", "d", " ", "i", " ", "f", "o", "c", "u", "s">>,
      <<"w", "h", "a", "t", " ", "n", "e", "x", "t">>,
      <<"w", "h", "a", "t", " ", "d", "o", " ", "i", " ", "d", "o", " ", "n", "e", "x", "t">>,
      <<"h", "o", "w", " ", "s", "h", "o", "u", "l", "d", " ", "i", " ", "p", "r", "o", "g", "r", "e", "s", "s">>,
      <<"h", "o", "w", " ", "d", "o", " ", "i", " ", "p", "r", "o", "g", "r", "e", "s", "s">>,
      <<"w", "h", "a", "t", " ", "d", "o", " ", "i", " ", "w", "o", "r", "k", " ", "o", "n">>,
      <<"w", "h", "a", "t", " ", "s", "h", "o", "u", "l", "d", " ", "i", " ", "w", "o", "r", "k", " ", "o", "n">>,
      <<"h", "o", "w", " ", "d", "o", " ", "i", " ", "g", "e", "t", " ", "b", "e", "t", "t", "e", "r">>,
      <<"h", "o", "w", " ", "c", "a", "n", " ", "i", " ", "g", "e", "t", " ", "b", "e", "t", "t", "e", "r">>,
      <<"h", "o", "w", " ", "c", "a", "n", " ", "i", " ", "i", "m", "p", "r", "o", "v", "e">>,
      <<"h", "o", "w", " ", "t", "o", " ", "i", "m", "p", "r", "o", "v", "e">>,
      <<"h", "o", "w", " ", "t", "o", " ", "p", "r", "o", "g", "r", "e", "s", "s">>,
      <<"b", "e", "s", "t", " ", "w", "a", "y", " ", "t", "o", " ", "p", "r", "o", "g", "r", "e", "s", "s">>,
      <<"h", "e", "l", "p", " ", "m", "e", " ", "p", "r", "o", "g", "r", "e", "s", "s">> }

\* makeScorer: the intent words, in the order they are scanned
intentWords ==
    << <<"h", "o", "w">>,
       <<"w", "h", "e", "r", "e">>,
       <<"w", "h", "a", "t">>,
       <<"d", "r", "o", "p">>,
       <<"d", "r", "o", "p", "s">>,
       <<"c", "r", "a", "f", "t">>,
       <<"e", "a", "r", "n">>,
       <<"g", "e", "t">>,
       <<"u", "s", "e">>,
       <<"f", "i", "g", "h", "t">>,
       <<"b", "e", "s", "t">> >>

isSocialMessage(raw) ==
    LET q == normalize(raw)
    IN IF q \in socialExact THEN TRUE
       ELSE IF /\ Len(q) <= 18
               /\ \E st \in starters : q = st \/ startsWith(q, st \o <<" ">>)
               /\ ~\E w \in gameWords : includes(q, w)
              THEN TRUE
       ELSE IF /\ \E h \in howAreYouVariants : includes(q, h)
               /\ ~\E w \in gameSignal : includes(q, w)
              THEN TRUE
       ELSE FALSE

isProgressionIntent(raw) ==
    LET q == normalize(raw)
    IN \E t \in triggers : includes(q, t)

----------------------------------------------------------------------------
(* Chunk rerank *)

RECURSIVE SumSeq(_)
SumSeq(s) == IF s = <<>> THEN 0 ELSE s[1] + SumSeq(Tail(s))

\* caps of the handler
QUESTION_MAX == 900
CHUNKS_MAX == 12
CHUNK_TEXT_MAX == 2400
\* chunks of docs_index.json that are kept
INDEX_MAX == 7000
\* picked sources
TOP_K == 6
\* citations returned
CITATIONS_MAX == 3
\* chunk text shorter than this is penalised
SHORT_TEXT == 140

\* q.split(" ").filter((w) => w.length >= 3)
queryWords(q) == SelectSeq(splitSpace(q), LAMBDA w : Len(w) >= 3)

\* makeScorer(qRaw)(chunk)
scoreChunk(qRaw, chunk) ==
    LET q == normalize(qRaw)
        qWords == queryWords(q)
        title == normalize(chunk.title)
        section == normalize(chunk.section)
        text == normalize(chunk.text)
        exact == (IF q # <<>> /\ includes(text, q) THEN 30 ELSE 0)
                 + (IF q # <<>> /\ includes(title, q) THEN 24 ELSE 0)
                 + (IF q # <<>> /\ includes(section, q) THEN 16 ELSE 0)
        words == SumSeq([i \in 1..Len(qWords) |->
                    (IF includes(title, qWords[i]) THEN 6 ELSE 0)
                    + (IF includes(section, qWords[i]) THEN 4 ELSE 0)
                    + (IF includes(text, qWords[i]) THEN 1 ELSE 0)])
        intent == SumSeq([i \in 1..Len(intentWords) |->
                    IF ~includes(q, intentWords[i]) THEN 0
                    ELSE IF includes(title, intentWords[i]) \/ includes(section, intentWords[i])
                           THEN 4
                    ELSE IF includes(text, intentWords[i]) THEN 1
                    ELSE 0])
        len == Len(chunk.text)
        short == IF len > 0 /\ len < SHORT_TEXT THEN 4 ELSE 0
    IN IF text = <<>> /\ title = <<>> /\ section = <<>> THEN 0
       ELSE exact + words + intent - short

\* faulty variant: the scored candidates are left in the order given
sortByScoreNone(cs) == cs

\* .sort((a, b) => b._score - a._score): stable, descending
RECURSIVE sortByScore(_)
sortByScore(cs) ==
    IF cs = <<>> THEN <<>>
    ELSE LET f == sortByScore(Front(cs))
             c == cs[Len(cs)]
             pos == IF \E i \in 1..Len(f) : f[i].score >= c.score
                      THEN CHOOSE i \in 1..Len(f) :
                             /\ f[i].score >= c.score
                             /\ \A j \in (i + 1)..Len(f) : f[j].score < c.score
                      ELSE 0
         IN SubSeq(f, 1, pos) \o <<c>> \o SubSeq(f, pos + 1, Len(f))

\* the record rerankAndPick builds for one candidate
scoredChunk(qRaw, c) ==
    [title |-> IF c.title = <<>> THEN <<"U", "n", "t", "i", "t", "l", "e", "d">> ELSE c.title,
     section |-> c.section,
     url |-> c.url,
     text |-> clampText(c.text, CHUNK_TEXT_MAX),
     score |-> scoreChunk(qRaw, c)]

rerankAndPick(allChunks, qRaw) ==
    LET limited == SubSeq(allChunks, 1, IF Len(allChunks) < CHUNKS_MAX
                                          THEN Len(allChunks) ELSE CHUNKS_MAX)
        scored == sortByScore([i \in 1..Len(limited) |-> scoredChunk(qRaw, limited[i])])
        positive == SelectSeq(scored, LAMBDA x : x.score > 0)
    IN SubSeq(positive, 1, IF Len(positive) < TOP_K THEN Len(positive) ELSE TOP_K)

\* faulty variant: docs_index.json is loaded for every question
needsFallbackAlways(first) == TRUE

\* if (picked.length === 0): fall back to docs_index.json
needsFallback(first) == first = <<>>

\* fetchDocsIndexFromSite: the array found, [] when there is no host, the
\* response is not ok or the body holds no array
fetchDocsIndexFromSite(result) ==
    IF result.kind = "array" THEN result.data ELSE <<>>

\* docsIndex.length > 7000 ? docsIndex.slice(0, 7000) : docsIndex
capIndex(docsIndex) ==
    IF Len(docsIndex) > INDEX_MAX THEN SubSeq(docsIndex, 1, INDEX_MAX) ELSE docsIndex

----------------------------------------------------------------------------
(* The retrieval of the page script app.js.  A score is a fraction          *)
(* [num, den], since 2200 / len need not be an integer.                    *)

\* bounds of the length normalisation
LEN_MIN == 200
LEN_MAX == 2200

\* clamp(n, min, max)
clamp(n, min, max) == Max(min, Min(max, n))

\* tokenize: lower case, everything but letters, digits and blanks to " ",
\* split at runs of blanks, keep the tokens of at least 2 characters
tokenize(str) == SelectSeq(splitSpace(normalize(str)), LAMBDA t : Len(t) >= 2)

\* faulty variant: only the title counts
scoreChunkClientTitleOnly(qTokens, chunk) ==
    LET score == SumSeq([i \in 1..Len(qTokens) |->
                    IF qTokens[i] \in Range(tokenize(chunk.title)) THEN 6 ELSE 0])
    IN [num |-> score, den |-> 1]

\* scoreChunk(qTokens, chunk) of app.js
scoreChunkClient(qTokens, chunk) ==
    LET titleTokens == Range(tokenize(chunk.title))
        sectionTokens == Range(tokenize(chunk.section))
        textTokens == Range(tokenize(chunk.text))
        score == SumSeq([i \in 1..Len(qTokens) |->
                    (IF qTokens[i] \in titleTokens THEN 6 ELSE 0)
                    + (IF qTokens[i] \in sectionTokens THEN 4 ELSE 0)
                    + (IF qTokens[i] \in textTokens THEN 1 ELSE 0)])
        len == clamp(Len(chunk.text), LEN_MIN, LEN_MAX)
    IN IF qTokens = <<>> \/ score = 0 THEN [num |-> 0, den |-> 1]
       ELSE [num |-> score * len + LEN_MAX, den |-> len]

----------------------------------------------------------------------------
(* Rate limiter: rateLimitMap is a Map, kept as its entries in insertion    *)
(* order.                                                                  *)

RATE_LIMIT == 6
WINDOW_MS == 60000
\* cleanupRateLimitMap(5000) in the handler; scaled so that more addresses than
\* the map may track do call
MAX_IPS == 1

mapHas(map, ip) == \E i \in 1..Len(map) : map[i].ip = ip

mapGet(map, ip) == map[CHOOSE i \in 1..Len(map) : map[i].ip = ip].ts

mapSet(map, ip, ts) ==
    IF mapHas(map, ip)
      THEN [i \in 1..Len(map) |-> IF map[i].ip = ip THEN [ip |-> ip, ts |-> ts] ELSE map[i]]
      ELSE Append(map, [ip |-> ip, ts |-> ts])

ceilSecondsDown(ms) == ms \div 1000

\* Math.ceil(ms / 1000)
ceilSeconds(ms) == IF ms % 1000 = 0 THEN ms \div 1000 ELSE (ms \div 1000) + 1

rateLimitCounting(map, ip, t) ==
    LET timestamps == IF mapHas(map, ip) THEN mapGet(map, ip) ELSE <<>>
        recent == SelectSeq(timestamps, LAMBDA ts : t - ts < WINDOW_MS)
    IN IF Len(recent) >= RATE_LIMIT
         THEN [allowed |-> FALSE,
               retryAfterSec |-> ceilSeconds(WINDOW_MS - (t - recent[1])),
               map |-> mapSet(map, ip, Append(recent, t))]
         ELSE [allowed |-> TRUE,
               retryAfterSec |-> 0,
               map |-> mapSet(map, ip, Append(recent, t))]

\* rateLimit(ip, limit, windowMs) at time t: the verdict and the map after it
rateLimit(map, ip, t) ==
    LET timestamps == IF mapHas(map, ip) THEN mapGet(map, ip) ELSE <<>>
        recent == SelectSeq(timestamps, LAMBDA ts : t - ts < WINDOW_MS)
    IN IF Len(recent) >= RATE_LIMIT
         THEN [allowed |-> FALSE,
               retryAfterSec |-> ceilSeconds(WINDOW_MS - (t - recent[1])),
               map |-> mapSet(map, ip, recent)]
         ELSE [allowed |-> TRUE,
               retryAfterSec |-> 0,
               map |-> mapSet(map, ip, Append(recent, t))]

\* entries.sort((a, b) => (a[1]?.[0] ?? 0) - (b[1]?.[0] ?? 0)): stable, ascending
firstStamp(e) == IF e.ts = <<>> THEN 0 ELSE e.ts[1]

RECURSIVE sortByFirstStamp(_)
sortByFirstStamp(es) ==
    IF es = <<>> THEN <<>>
    ELSE LET f == sortByFirstStamp(Front(es))
             e == es[Len(es)]
             pos == IF \E i \in 1..Len(f) : firstStamp(f[i]) <= firstStamp(e)
                      THEN CHOOSE i \in 1..Len(f) :
                             /\ firstStamp(f[i]) <= firstStamp(e)
                             /\ \A j \in (i + 1)..Len(f) : firstStamp(f[j]) > firstStamp(e)
                      ELSE 0
         IN SubSeq(f, 1, pos) \o <<e>> \o SubSeq(f, pos + 1, Len(f))

cleanupRateLimitMapNever(map, maxIps) == map

cleanupRateLimitMap(map, maxIps) ==
    IF Len(map) <= maxIps THEN map
    ELSE LET entries == sortByFirstStamp(map)
             toDelete == Len(entries) - maxIps
             gone == {entries[i].ip : i \in 1..toDelete}
         IN SelectSeq(map, LAMBDA e : e.ip \notin gone)

----------------------------------------------------------------------------
(* The handler of /api/chat *)

\* bounds of the handler's inputs
MaxClientChunks == 2
MaxCitations == 2
MaxTicks == 3

ChunkCrafting ==
    [title |-> <<"C", "r", "a", "f", "t", "i", "n", "g">>,
     section |-> <<"P", "o", "t", "i", "o", "n", "s">>,
     url |-> <<"/", "c">>,
     text |-> <<"C", "r", "a", "f", "t", " ", "p", "o", "t", "i", "o", "n", "s", " ", "a", "t", " ", "t", "h", "e", " ", "t", "a", "b", "l", "e">>]

ChunkFishing ==
    [title |-> <<"F", "i", "s", "h", "i", "n", "g", " ", "G", "u", "i", "d", "e">>,
     section |-> <<"B", "a", "s", "i", "c", "s">>,
     url |-> <<"/", "f">>,
     text |-> <<"C", "a", "s", "t", " ", "t", "h", "e", " ", "r", "o", "d">>]

ChunkBlank ==
    [title |-> <<>>,
     section |-> <<>>,
     url |-> <<>>,
     text |-> <<>>]

ChunkPool == {ChunkCrafting, ChunkFishing, ChunkBlank}

\* a list longer than CHUNKS_MAX whose only chunk about crafting comes last
LongList ==
    [i \in 1..(CHUNKS_MAX + 1) |-> IF i <= CHUNKS_MAX THEN ChunkFishing ELSE ChunkCrafting]

\* a list of more than TOP_K chunks, the two kinds in turn
MixedList ==
    [i \in 1..(TOP_K + 2) |-> IF i % 2 = 1 THEN ChunkCrafting ELSE ChunkFishing]

\* docs_index.json as it may be found: empty, two chunks, more than TOP_K
\* chunks, and one longer than CHUNKS_MAX whose only relevant chunk comes last
ArtifactPool == {<<>>, <<ChunkFishing, ChunkCrafting>>, MixedList, LongList}

\* body.chunks as it may be sent
ClientChunkLists == SeqsUpTo(ChunkPool, MaxClientChunks) \cup {LongList}

IndexResults ==
    {[kind |-> k, data |-> <<>>] : k \in {"nohost", "notok", "badjson", "throws"}}
    \cup {[kind |-> "array", data |-> a] : a \in ArtifactPool}

QuestionPool ==
    { <<>>,
      <<" ", " ">>,
      <<"H", "i", "!">>,
      <<"w", "h", "a", "t", " ", "n", "e", "x", "t", "?">>,
      <<"h", "o", "w", " ", "d", "o", " ", "I", " ", "c", "r", "a", "f", "t", " ", "p", "o", "t", "i", "o", "n", "s">>,
      <<"r", "o", "d">>,
      <<"f", "i", "s", "h", "i", "n", "g", " ", "p", "o", "t", "i", "o", "n", "s">>,
      <<"z", "e", "b", "r", "a">> }

IpPool == {"10.0.0.1"}

\* the (title, section) pairs the answer generator may cite
CitationPool ==
    { [title |-> <<"C", "r", "a", "f", "t", "i", "n", "g">>, section |-> <<"P", "o", "t", "i", "o", "n", "s">>],
      [title |-> <<"c", "r", "a", "f", "t", "i", "n", "g", " ">>, section |-> <<"p", "o", "t", "i", "o", "n", "s">>],
      [title |-> <<"F", "i", "s", "h", "i", "n", "g", " ", "G", "u", "i", "d", "e">>, section |-> <<"B", "a", "s", "i", "c", "s">>],
      [title |-> <<"S", "e", "c", "r", "e", "t", "s">>, section |-> <<"C", "h", "e", "a", "t", "s">>],
      [title |-> <<>>, section |-> <<"P", "o", "t", "i", "o", "n", "s">>] }

\* a list of citations with a repeated pair and four different titled pairs
ManyCitations ==
    << [title |-> <<"C", "r", "a", "f", "t", "i", "n", "g">>, section |-> <<"P", "o", "t", "i", "o", "n", "s">>],
       [title |-> <<"C", "r", "a", "f", "t", "i", "n", "g", " ">>, section |-> <<"P", "o", "t", "i", "o", "n", "s">>],
       [title |-> <<"F", "i", "s", "h", "i", "n", "g", " ", "G", "u", "i", "d", "e">>, section |-> <<"B", "a", "s", "i", "c", "s">>],
       [title |-> <<"S", "e", "c", "r", "e", "t", "s">>, section |-> <<"C", "h", "e", "a", "t", "s">>],
       [title |-> <<"c", "r", "a", "f", "t", "i", "n", "g", " ">>, section |-> <<"p", "o", "t", "i", "o", "n", "s">>] >>

\* what the answer generator returns: an HTTP error, content that is not
\* JSON, or a JSON object with a mode and (when isArray) a list of citations
GroqResults ==
    {[kind |-> k, mode |-> "helper", isArray |-> FALSE, citations |-> <<>>] :
        k \in {"error", "notjson"}}
    \cup [kind : {"json"}, mode : {"docs", "helper", "other"}, isArray : {TRUE},
          citations : SeqsUpTo(CitationPool, MaxCitations) \cup {ManyCitations}]
    \cup [kind : {"json"}, mode : {"docs", "helper"}, isArray : {FALSE},
          citations : {<<>>}]

\* fetchDocsIndexFromSite was not called
NoIndex == [kind |-> "none", data |-> <<>>]

NoResponse == [status |-> 0, mode |-> "", citations |-> <<>>, error |-> ""]

ErrorResponse(st, msg) == [status |-> st, mode |-> "", citations |-> <<>>, error |-> msg]

\* faulty variant: repeated keys are not dropped
RECURSIVE uniqueCitationsRepeated(_)
uniqueCitationsRepeated(cs) ==
    IF cs = <<>> THEN <<>>
    ELSE LET f == uniqueCitationsRepeated(Front(cs))
             c == cs[Len(cs)]
         IN IF trim(c.title) = <<>> THEN f
            ELSE Append(f, [title |-> trim(c.title), section |-> trim(c.section)])

\* the citation loop of the handler: trim, drop empty titles, drop repeated
\* "title__section" keys
RECURSIVE uniqueCitations(_)
uniqueCitations(cs) ==
    IF cs = <<>> THEN <<>>
    ELSE LET f == uniqueCitations(Front(cs))
             c == cs[Len(cs)]
             t == trim(c.title)
             sec == trim(c.section)
             key(x) == x.title \o <<"_", "_">> \o x.section
         IN IF t = <<>> THEN f
            ELSE IF \E i \in 1..Len(f) : key(f[i]) = key([title |-> t, section |-> sec])
                   THEN f
            ELSE Append(f, [title |-> t, section |-> sec])

\* parsed?.mode === "docs" ? "docs" : "helper"
responseModeAsSent(g) == IF g.kind = "json" THEN g.mode ELSE "helper"

responseMode(g) == IF g.kind = "json" /\ g.mode = "docs" THEN "docs" ELSE "helper"

\* the citations the handler returns for a generator result
responseCitations(g) ==
    LET mode == responseMode(g)
        cited == IF g.kind = "json" /\ g.isArray THEN g.citations ELSE <<>>
        kept == uniqueCitations(IF mode = "helper" THEN <<>> ELSE cited)
    IN SubSeq(kept, 1, IF Len(kept) < CITATIONS_MAX THEN Len(kept) ELSE CITATIONS_MAX)

ChatInit ==
    /\ hpc = "idle"
    /\ now = 0
    /\ rateLimitMap = <<>>
    /\ reqQuestion = <<>>
    /\ clientChunks = <<>>
    /\ indexFetch = NoIndex
    /\ picked = <<>>
    /\ usedIndex = FALSE
    /\ proposed = <<>>
    /\ response = NoResponse
    /\ allowedLog = {}

\* the allowed requests of the last window, with the one the limiter has just
\* ruled on: records [ip, at, n], n requests of ip allowed at time at (an
\* address is counted up to one request more than the limit)
RECURSIVE sumAllowed(_)
sumAllowed(es) ==
    IF es = {} THEN 0
    ELSE LET e == CHOOSE x \in es : TRUE IN e.n + sumAllowed(es \ {e})

logRequest(log, ip, t, allowed) ==
    LET inWindow == {e \in log : t - e.at < WINDOW_MS}
        same == {e \in inWindow : e.ip = ip /\ e.at = t}
        before == IF same = {} THEN 0 ELSE (CHOOSE e \in same : TRUE).n
        counted == sumAllowed({e \in inWindow : e.ip = ip})
    IN IF allowed /\ counted <= RATE_LIMIT
         THEN (inWindow \ same) \cup {[ip |-> ip, at |-> t, n |-> before + 1]}
         ELSE inWindow

\* the handler up to its first await (or its early return), for a request drawn
\* from the given addresses, questions and candidate lists
ReceiveFrom(ips, questions, chunkLists) ==
    /\ hpc = "idle"
    /\ \E method \in {"POST", "GET"}, ip \in ips, hasKey \in BOOLEAN,
          question \in questions, chunks \in chunkLists :
        LET rl == rateLimit(rateLimitMap, ip, now)
            q == clampText(trim(question), QUESTION_MAX)
            first == rerankAndPick(chunks, q)
            reply(r) == /\ response' = r
                        /\ hpc' = "responded"
                        /\ UNCHANGED <<reqQuestion, clientChunks, picked>>
        IN /\ usedIndex' = FALSE
           /\ indexFetch' = NoIndex
           /\ proposed' = <<>>
           /\ IF method # "POST"
                THEN reply(ErrorResponse(405, "Use POST"))
                     /\ UNCHANGED <<rateLimitMap, allowedLog>>
              ELSE IF ~rl.allowed
                THEN /\ rateLimitMap' = rl.map
                     /\ allowedLog' = logRequest(allowedLog, ip, now, FALSE)
                     /\ reply([status |-> 429, mode |-> "helper", citations |-> <<>>,
                               error |-> ""])
              ELSE /\ rateLimitMap' = cleanupRateLimitMap(rl.map, MAX_IPS)
                   /\ allowedLog' = logRequest(allowedLog, ip, now, TRUE)
                   /\ IF ~hasKey THEN reply(ErrorResponse(500, "Missing GROQ_API_KEY"))
                      ELSE IF q = <<>> THEN reply(ErrorResponse(400, "Missing question"))
                      ELSE IF isSocialMessage(q)
                        THEN reply([status |-> 200, mode |-> "social",
                                    citations |-> <<>>, error |-> ""])
                      ELSE IF isProgressionIntent(q)
                        THEN reply([status |-> 200, mode |-> "progression",
                                    citations |-> <<>>, error |-> ""])
                      ELSE /\ reqQuestion' = q
                           /\ clientChunks' = chunks
                           /\ picked' = first
                           /\ hpc' = IF needsFallback(first) THEN "fetchIndex" ELSE "groq"
                           /\ response' = NoResponse
    /\ UNCHANGED now

Receive == ReceiveFrom(IpPool, QuestionPool, ClientChunkLists)

\* the handler serving greetings from several addresses, more of them than the
\* limiter's map may track: every request is answered before the first await
LimiterIps == {"10.0.0.1", "10.0.0.2"}

LimiterQuestions == {<<"H", "i", "!">>}

LimiterReceive == ReceiveFrom(LimiterIps, LimiterQuestions, {<<>>})

\* await fetchDocsIndexFromSite(req) returns or throws
IndexLoaded ==
    /\ hpc = "fetchIndex"
    /\ \E result \in IndexResults :
        /\ indexFetch' = result
        /\ IF result.kind = "throws"
             THEN /\ response' = ErrorResponse(500, "fetch failed")
                  /\ hpc' = "responded"
                  /\ UNCHANGED <<picked, usedIndex>>
             ELSE /\ picked' = rerankAndPick(capIndex(fetchDocsIndexFromSite(result)),
                                             reqQuestion)
                  /\ usedIndex' = TRUE
                  /\ hpc' = "groq"
                  /\ UNCHANGED response
    /\ UNCHANGED <<now, rateLimitMap, reqQuestion, clientChunks, proposed, allowedLog>>

\* await groqChat(...) returns or throws; the reply is normalised and sent
GroqReturns ==
    /\ hpc = "groq"
    /\ \E g \in GroqResults :
        /\ proposed' = g.citations
        /\ response' =
             IF g.kind = "error" THEN ErrorResponse(502, "Groq error")
             ELSE [status |-> 200, mode |-> responseMode(g),
                   citations |-> responseCitations(g), error |-> ""]
    /\ hpc' = "responded"
    /\ UNCHANGED <<now, rateLimitMap, reqQuestion, clientChunks, indexFetch, picked, usedIndex,
                   allowedLog>>

\* the invocation is over; the next request may arrive
Reset ==
    /\ hpc = "responded"
    /\ hpc' = "idle"
    /\ reqQuestion' = <<>>
    /\ clientChunks' = <<>>
    /\ indexFetch' = NoIndex
    /\ picked' = <<>>
    /\ usedIndex' = FALSE
    /\ proposed' = <<>>
    /\ response' = NoResponse
    /\ UNCHANGED <<now, rateLimitMap, allowedLog>>

\* Date.now() advances between requests
Tick ==
    /\ hpc = "idle"
    /\ now < MaxTicks * (WINDOW_MS \div 2)
    /\ now' = now + (WINDOW_MS \div 2)
    /\ UNCHANGED <<rateLimitMap, hpc, reqQuestion, clientChunks, indexFetch, picked, usedIndex,
                   proposed, response, allowedLog>>

----------------------------------------------------------------------------
(* Properties of the handler *)

\* the (title, section) pairs exposed to the generator, compared without case
exposedPair(c) ==
    \E i \in 1..Len(picked) :
        /\ toLowerCase(trim(picked[i].title)) = toLowerCase(c.title)
        /\ toLowerCase(trim(picked[i].section)) = toLowerCase(c.section)

\* C1: a citation proposed by the generator whose (title, section) pair matches,
\* case-insensitively, no chunk exposed to the generator in this request does
\* not appear among the citations of the response.
C1_CitationsAreExposed ==
    (hpc = "responded" /\ response.status = 200)
        => \A i \in 1..Len(proposed) :
              LET c == [title |-> trim(proposed[i].title),
                        section |-> trim(proposed[i].section)]
              IN ~exposedPair(c)
                    => \A j \in 1..Len(response.citations) : response.citations[j] # c

\* C2: a response in mode "docs" carries at least one citation of an exposed
\* chunk; a "docs" answer with no such citation goes out as "helper".
C2_DocsModeHasCitation ==
    (hpc = "responded" /\ response.status = 200 /\ response.mode = "docs")
        => \E i \in 1..Len(response.citations) : exposedPair(response.citations[i])

\* the candidates rerankAndPick was last given for the request, and those of
\* them it scored
candidates == IF usedIndex THEN capIndex(fetchDocsIndexFromSite(indexFetch)) ELSE clientChunks

scoredCandidates == SubSeq(candidates, 1, Min(Len(candidates), CHUNKS_MAX))

\* C23: at most TOP_K chunks are picked, each with a positive score, in
\* non-increasing score order, and when rerankAndPick has returned no scored
\* candidate that was left out scores higher than a picked one.
C23_TopKByScore ==
    /\ Len(picked) <= TOP_K
    /\ \A i \in 1..Len(picked) : picked[i].score > 0
    /\ \A i \in 1..Len(picked) : \A j \in i..Len(picked) : picked[i].score >= picked[j].score
    /\ hpc \in {"fetchIndex", "groq"}
          => \A k \in 1..Len(scoredCandidates) :
                LET c == scoredChunk(reqQuestion, scoredCandidates[k])
                IN c \notin Range(picked)
                      => \A i \in 1..Len(picked) : picked[i].score >= c.score

\* C23 witness: of eight candidates with positive scores of two sizes, six
\* were picked
C23_Witness ==
    /\ hpc = "groq" /\ usedIndex /\ indexFetch.data = MixedList
    /\ Len(picked) = TOP_K
    /\ picked[1].score > picked[TOP_K].score

\* the client-supplied candidates among the first n with a positive score
positiveClient(n) ==
    {i \in 1..Min(Len(clientChunks), n) : scoreChunk(reqQuestion, clientChunks[i]) > 0}

\* the picked sources are client-supplied candidates
pickedFromClient ==
    \A i \in 1..Len(picked) :
        \E k \in 1..Len(clientChunks) : picked[i] = scoredChunk(reqQuestion, clientChunks[k])

\* C24 (as claimed): once retrieval is over, the artifact was fetched exactly
\* when no client-supplied candidate scores above 0; otherwise every picked
\* source is a client-supplied candidate.
C24_FallbackIffNoClientHit ==
    hpc = "groq"
        => /\ (indexFetch # NoIndex) <=> (positiveClient(Len(clientChunks)) = {})
           /\ positiveClient(Len(clientChunks)) # {} => pickedFromClient

\* C24 (amended): once retrieval is over, the artifact was fetched exactly
\* when none of the first CHUNKS_MAX client-supplied candidates scores above
\* 0; otherwise every picked source is one of those candidates.
C24_FallbackIffNoScoredClientHit ==
    hpc = "groq"
        => /\ (indexFetch # NoIndex) <=> (positiveClient(CHUNKS_MAX) = {})
           /\ positiveClient(CHUNKS_MAX) # {} => (~usedIndex /\ pickedFromClient)

\* C24 witness: a request whose only matching candidate is the thirteenth
\* went on to the artifact
C24_Witness ==
    /\ hpc = "groq" /\ usedIndex
    /\ clientChunks = LongList
    /\ positiveClient(Len(clientChunks)) # {}

\* C25: after the fallback, a chunk of the artifact within INDEX_MAX that
\* scores above 0 is picked, unless TOP_K chunks scoring no less are.
C25_FallbackScoresWholeArtifact ==
    (hpc = "groq" /\ usedIndex)
        => \A k \in 1..Len(candidates) :
              scoreChunk(reqQuestion, candidates[k]) > 0
                 => \/ scoredChunk(reqQuestion, candidates[k]) \in Range(picked)
                    \/ /\ Len(picked) = TOP_K
                       /\ \A i \in 1..Len(picked) :
                             picked[i].score >= scoreChunk(reqQuestion, candidates[k])

\* C29: the citations of a response hold no (title, section) pair twice and
\* are at most CITATIONS_MAX.
C29_CitationsUniqueAndCapped ==
    /\ Len(response.citations) <= CITATIONS_MAX
    /\ \A i, j \in 1..Len(response.citations) :
          (/\ response.citations[i].title = response.citations[j].title
           /\ response.citations[i].section = response.citations[j].section) => i = j

\* C29 witness: five citations with a repeated pair were proposed and three
\* are returned
C29_Witness ==
    /\ hpc = "responded" /\ proposed = ManyCitations
    /\ Len(response.citations) = CITATIONS_MAX

\* C30: when docs_index.json could not be loaded (no host, response not ok,
\* body without an array) the request ends with an error response.
C30_MissingIndexIsAnError ==
    indexFetch.kind \in {"nohost", "notok", "badjson"}
        => ~usedIndex /\ hpc = "responded" /\ response.status >= 400

\* the requests of an address the limiter allowed within the window ending now
allowedInWindow(ip) == sumAllowed({e \in allowedLog : e.ip = ip /\ now - e.at < WINDOW_MS})

\* C32: whatever requests came from whatever addresses, and whatever entries
\* cleanupRateLimitMap evicted, no address has had more than RATE_LIMIT requests
\* allowed within any window of WINDOW_MS.
C32_AtMostLimitPerWindow ==
    \A e \in allowedLog : allowedInWindow(e.ip) <= RATE_LIMIT

\* the times at which a later request of the address is ruled on
laterTimes == {now + d : d \in {0, 1, WINDOW_MS \div 2, WINDOW_MS - 1, WINDOW_MS}}

\* C34: a denied request adds no timestamp to the entry of its address (the
\* entry is only pruned to the window), leaves the entry of every other
\* address as it was, and does not change when the address is allowed again.
C34_DeniedConsumesNothing ==
    [][(hpc = "idle" /\ response'.status = 429)
          => \E ip \in LimiterIps \cup IpPool :
                /\ mapHas(rateLimitMap, ip)
                /\ rateLimitMap' =
                      mapSet(rateLimitMap, ip,
                             SelectSeq(mapGet(rateLimitMap, ip),
                                       LAMBDA ts : now - ts < WINDOW_MS))
                /\ \A t \in laterTimes :
                      rateLimit(rateLimitMap', ip, t).allowed
                          = rateLimit(rateLimitMap, ip, t).allowed]_vars

C34_Witness ==
    /\ hpc = "responded" /\ response.status = 429
    /\ now > 0
    /\ \E i \in 1..Len(rateLimitMap) :
          /\ Len(rateLimitMap[i].ts) = RATE_LIMIT
          /\ rateLimitMap[i].ts[1] < rateLimitMap[i].ts[RATE_LIMIT]

\* C35: whenever the handler is not in the middle of an invocation the
\* limiter's map tracks at most MAX_IPS addresses.
C35_MapIsBounded == Len(rateLimitMap) <= MAX_IPS

\* an address was allowed a request within the last window and is tracked no more
C35_Witness ==
    /\ hpc = "responded" /\ Len(rateLimitMap) = MAX_IPS
    /\ \E e \in allowedLog : ~mapHas(rateLimitMap, e.ip)

\* C36: a response with status 200 has one of the modes social, progression,
\* docs and helper; unless its mode is docs it carries no citation; and a social
\* or progression response is sent by the handler's first step, with
\* docs_index.json not loaded and the generator not called.
C36_ModesOfSuccess ==
    /\ [](response.status = 200
            => /\ response.mode \in {"social", "progression", "docs", "helper"}
               /\ response.mode # "docs" => response.citations = <<>>
               /\ response.mode \in {"social", "progression"}
                     => ~usedIndex /\ indexFetch = NoIndex /\ proposed = <<>>)
    /\ [][(response' # response /\ response'.mode \in {"social", "progression"})
              => hpc = "idle" /\ hpc' = "responded"]_vars

C36_Witness ==
    /\ hpc = "responded" /\ response.status = 200
    /\ response.mode = "progression"
    /\ rateLimitMap # <<>>

----------------------------------------------------------------------------
(* Part III: text cleaning and chunking of the crawl scripts.  Texts are   *)
(* sequences of one-character strings, as in Part II.                      *)

\* U+00A0, one character
NBSP == "nbsp"

\* \w of a regular expression
isWordChar(c) ==
    c \in Range(LowerLetters) \cup Range(UpperLetters) \cup Digits \cup {"_"}

\* \s of a regular expression
isSpaceChar(c) == c \in Whitespace \cup {NBSP}

\* the noise markers, in the order they are removed; bounded: written with \b
NOISE_PATTERNS ==
    << [word |-> <<"a", "r", "r", "o", "w", "-", "u", "p", "-", "r", "i", "g", "h", "t">>, bounded |-> FALSE],
       [word |-> <<"c", "h", "e", "v", "r", "o", "n", "-", "l", "e", "f", "t">>, bounded |-> FALSE],
       [word |-> <<"c", "h", "e", "v", "r", "o", "n", "-", "r", "i", "g", "h", "t">>, bounded |-> FALSE],
       [word |-> <<"h", "a", "s", "h", "t", "a", "g">>, bounded |-> FALSE],
       [word |-> <<"c", "o", "p", "y">>, bounded |-> TRUE],
       [word |-> <<"e", "d", "i", "t">>, bounded |-> TRUE],
       [word |-> <<"s", "e", "a", "r", "c", "h">>, bounded |-> TRUE],
       [word |-> <<"p", "o", "w", "e", "r", "e", "d", " ", "b", "y", " ", "g", "i", "t", "b", "o", "o", "k">>, bounded |-> TRUE],
       [word |-> <<"p", "r", "e", "v", "i", "o", "u", "s">>, bounded |-> TRUE],
       [word |-> <<"n", "e", "x", "t">>, bounded |-> TRUE] >>

\* the pattern (flags gi) matches s at position i
matchAt(s, i, pat) ==
    LET n == Len(pat.word)
    IN /\ i + n - 1 <= Len(s)
       /\ toLowerCase(SubSeq(s, i, i + n - 1)) = pat.word
       /\ pat.bounded =>
            /\ (i = 1 \/ ~isWordChar(s[i - 1]))
            /\ (i + n > Len(s) \/ ~isWordChar(s[i + n]))

\* t.replace(re, " ") for one noise pattern, from position i on
RECURSIVE replaceNoiseFrom(_, _, _)
replaceNoiseFrom(s, i, pat) ==
    IF i > Len(s) THEN <<>>
    ELSE IF matchAt(s, i, pat)
      THEN <<" ">> \o replaceNoiseFrom(s, i + Len(pat.word), pat)
    ELSE <<s[i]>> \o replaceNoiseFrom(s, i + 1, pat)

\* for (const re of NOISE_PATTERNS) t = t.replace(re, " "): the first k patterns
RECURSIVE removeNoise(_, _)
removeNoise(s, k) ==
    IF k = 0 THEN s
    ELSE replaceNoiseFrom(removeNoise(s, k - 1), 1, NOISE_PATTERNS[k])

\* the first position from i on whose character is not in set C
RECURSIVE runEnd(_, _, _)
runEnd(s, i, C) ==
    IF i <= Len(s) /\ s[i] \in C THEN runEnd(s, i + 1, C) ELSE i

\* the repetitions of hashtag\s* that start at i: how many, and where they end
RECURSIVE hashtagRun(_, _)
hashtagRun(s, i) ==
    IF matchAt(s, i, NOISE_PATTERNS[4])
      THEN LET r == hashtagRun(s, runEnd(s, i + 7, Whitespace \cup {NBSP}))
           IN [n |-> r.n + 1, end |-> r.end]
      ELSE [n |-> 0, end |-> i]

\* t.replace(/(hashtag\s*){2,}/gi, " ")
RECURSIVE replaceHashtagRuns(_, _)
replaceHashtagRuns(s, i) ==
    IF i > Len(s) THEN <<>>
    ELSE LET r == hashtagRun(s, i)
         IN IF r.n >= 2 THEN <<" ">> \o replaceHashtagRuns(s, r.end)
            ELSE <<s[i]>> \o replaceHashtagRuns(s, i + 1)

\* t.replace(/[ \t]+\n/g, "\n")
RECURSIVE dropBlanksBeforeNewline(_, _)
dropBlanksBeforeNewline(s, i) ==
    IF i > Len(s) THEN <<>>
    ELSE LET j == runEnd(s, i, {" ", "\t"})
         IN IF j > i /\ j <= Len(s) /\ s[j] = "\n"
              THEN <<"\n">> \o dropBlanksBeforeNewline(s, j + 1)
              ELSE <<s[i]>> \o dropBlanksBeforeNewline(s, i + 1)

\* t.replace(/\n{3,}/g, "\n\n")
RECURSIVE capNewlines(_, _)
capNewlines(s, i) ==
    IF i > Len(s) THEN <<>>
    ELSE LET j == runEnd(s, i, {"\n"})
         IN IF j - i >= 3 THEN <<"\n", "\n">> \o capNewlines(s, j)
            ELSE <<s[i]>> \o capNewlines(s, i + 1)

\* t.replace(/[ \t]{2,}/g, " ")
RECURSIVE collapseBlanks(_, _)
collapseBlanks(s, i) ==
    IF i > Len(s) THEN <<>>
    ELSE LET j == runEnd(s, i, {" ", "\t"})
         IN IF j - i >= 2 THEN <<" ">> \o collapseBlanks(s, j)
            ELSE <<s[i]>> \o collapseBlanks(s, i + 1)

\* String.prototype.trim, which also strips U+00A0
trimAll(s) ==
    LET a == runEnd(s, 1, Whitespace \cup {NBSP})
        RECURSIVE lastKept(_)
        lastKept(j) == IF j >= a /\ isSpaceChar(s[j]) THEN lastKept(j - 1) ELSE j
    IN SubSeq(s, a, lastKept(Len(s)))

cleanText(s) ==
    IF s = <<>> THEN <<>>
    ELSE LET t1 == [i \in 1..Len(s) |-> IF s[i] = NBSP THEN " " ELSE s[i]]
             t2 == removeNoise(t1, Len(NOISE_PATTERNS))
             t3 == replaceHashtagRuns(t2, 1)
             t4 == dropBlanksBeforeNewline(t3, 1)
             t5 == capNewlines(t4, 1)
             t6 == collapseBlanks(t5, 1)
         IN trimAll(t6)

----------------------------------------------------------------------------
(* Chunking.  A block is a candidate chunk: its text, the number of its    *)
(* leading characters carried over from the block before it, and whether   *)
(* it passes the minimum-size filter and is emitted as a chunk.            *)

\* chunk sizes of build_docs_index.mjs, set small through the environment
\* knobs CHUNK_TARGET_CHARS, CHUNK_OVERLAP_CHARS and MIN_CHUNK_CHARS
CHUNK_TARGET_CHARS == 4
CHUNK_OVERLAP_CHARS == 1
MIN_CHUNK_CHARS == 2

\* chunk sizes of the legacy version, in the same proportion: the chunk size
\* (1400), the least distance of a paragraph cut from the start of a part
\* (200) and the size below which a chunk is dropped (40)
MAX_CHUNK_CHARS == 8
CUT_FLOOR == 3
TINY_CHUNK_CHARS == 2

\* Array.prototype.join
RECURSIVE join(_, _)
join(parts, sep) ==
    IF parts = <<>> THEN <<>>
    ELSE IF Len(parts) = 1 THEN parts[1]
    ELSE parts[1] \o sep \o join(Tail(parts), sep)

\* text.split(/\n{2,}/)
RECURSIVE splitBlankLines(_)
splitBlankLines(s) ==
    IF \E i \in 1..(Len(s) - 1) : s[i] = "\n" /\ s[i + 1] = "\n"
      THEN LET i == CHOOSE k \in 1..(Len(s) - 1) :
                        /\ s[k] = "\n" /\ s[k + 1] = "\n"
                        /\ \A j \in 1..(k - 1) : ~(s[j] = "\n" /\ s[j + 1] = "\n")
           IN <<SubSeq(s, 1, i - 1)>>
                \o splitBlankLines(SubSeq(s, runEnd(s, i, {"\n"}), Len(s)))
      ELSE <<s>>

Block(text, carried, min) == [text |-> text, carried |-> carried, kept |-> Len(text) >= min]

\* pushChunk: const joined = current.join("\n\n").trim()
pushChunk(st) ==
    Append(st.blocks,
           Block(trimAll(join(st.current, <<"\n", "\n">>)), st.carried, MIN_CHUNK_CHARS))

\* faulty variant: the slices leave a gap of one character
sliceStepGap(targetChars, overlapChars) == targetChars + 1

sliceStepPlain(targetChars, overlapChars) == targetChars - overlapChars

\* start += Math.max(1, targetChars - overlapChars)
sliceStep(targetChars, overlapChars) == Max(1, targetChars - overlapChars)

\* the hard split of one massive paragraph: slices from offset start on
RECURSIVE hardSlices(_, _, _, _)
hardSlices(p, start, targetChars, overlapChars) ==
    IF start >= Len(p) THEN <<>>
    ELSE LET slice == SubSeq(p, start + 1, Min(start + targetChars, Len(p)))
             lead == runEnd(slice, 1, Whitespace \cup {NBSP}) - 1
             step == sliceStep(targetChars, overlapChars)
             shared == IF start = 0 THEN 0
                       ELSE Min(Len(slice), Max(0, targetChars - step))
             text == trimAll(slice)
         IN <<Block(text, Min(Len(text), Max(0, shared - lead)), MIN_CHUNK_CHARS)>>
              \o hardSlices(p, start + step, targetChars, overlapChars)

\* one turn of the loop over the paragraphs
chunkStep(st, p, targetChars, overlapChars) ==
    IF 2 * Len(p) > 3 * targetChars
      THEN [blocks |-> (IF st.currentLen > 0 THEN pushChunk(st) ELSE st.blocks)
                          \o hardSlices(p, 0, targetChars, overlapChars),
            current |-> <<>>, currentLen |-> 0, carried |-> 0]
      ELSE LET flush == st.currentLen + Len(p) + 2 > targetChars /\ st.currentLen > 0
               prev == join(st.current, <<"\n", "\n">>)
               carry == trimAll(SubSeq(prev, Max(0, Len(prev) - overlapChars) + 1, Len(prev)))
               base == IF flush THEN (IF carry # <<>> THEN <<carry>> ELSE <<>>)
                       ELSE st.current
               len == IF flush THEN Len(carry) ELSE st.currentLen
           IN [blocks |-> IF flush THEN pushChunk(st) ELSE st.blocks,
               current |-> Append(base, p),
               currentLen |-> len + Len(p) + 2,
               carried |-> IF flush THEN Len(carry) ELSE st.carried]

RECURSIVE chunkLoop(_, _, _, _)
chunkLoop(st, paras, targetChars, overlapChars) ==
    IF paras = <<>> THEN st
    ELSE chunkLoop(chunkStep(st, paras[1], targetChars, overlapChars), Tail(paras),
                   targetChars, overlapChars)

\* chunkByParagraphs, with the blocks below the minimum size still listed
chunkBlocks(text, targetChars, overlapChars) ==
    LET paras == SelectSeq([i \in 1..Len(splitBlankLines(text)) |->
                               trimAll(splitBlankLines(text)[i])],
                           LAMBDA q : q # <<>>)
        st == chunkLoop([blocks |-> <<>>, current |-> <<>>, currentLen |-> 0, carried |-> 0],
                        paras, targetChars, overlapChars)
    IN IF st.currentLen > 0 THEN pushChunk(st) ELSE st.blocks

\* the texts of the blocks that are emitted
keptTexts(blocks) ==
    LET kept == SelectSeq(blocks, LAMBDA b : b.kept)
    IN [i \in 1..Len(kept) |-> kept[i].text]

chunkByParagraphs(text, targetChars, overlapChars) ==
    keptTexts(chunkBlocks(text, targetChars, overlapChars))

\* text.lastIndexOf("\n\n", from), 0-based; -1 when there is none
lastIndexOfBlankLine(s, from) ==
    LET at == {k \in 0..Min(from, Len(s) - 2) : s[k + 1] = "\n" /\ s[k + 2] = "\n"}
    IN IF at = {} THEN -1 ELSE CHOOSE k \in at : \A j \in at : j <= k

\* the end of the part that starts at offset start: the paragraph boundary
\* if one lies far enough into the part
splitEnd(text, start, maxChars) ==
    LET upto == Min(start + maxChars, Len(text))
        cut == lastIndexOfBlankLine(text, upto)
    IN IF cut > start + CUT_FLOOR THEN cut ELSE upto

\* the while loop of splitToSize, from offset start on
RECURSIVE splitLoop(_, _, _)
splitLoop(text, start, maxChars) ==
    IF start >= Len(text) THEN <<>>
    ELSE LET end == splitEnd(text, start, maxChars)
         IN <<trimAll(SubSeq(text, start + 1, end))>> \o splitLoop(text, end, maxChars)

\* the values start takes in the hard-split loop and in the loop of
\* splitToSize, the one that ends the loop included, for at most turns turns
RECURSIVE sliceStarts(_, _, _, _, _)
sliceStarts(p, start, targetChars, overlapChars, turns) ==
    IF start >= Len(p) \/ turns = 0 THEN <<start>>
    ELSE <<start>> \o sliceStarts(p, start + sliceStep(targetChars, overlapChars),
                                  targetChars, overlapChars, turns - 1)

RECURSIVE splitStarts(_, _, _, _)
splitStarts(text, start, maxChars, turns) ==
    IF start >= Len(text) \/ turns = 0 THEN <<start>>
    ELSE <<start>> \o splitStarts(text, splitEnd(text, start, maxChars), maxChars, turns - 1)

splitToSize(text, maxChars) ==
    IF Len(text) <= maxChars THEN <<text>>
    ELSE SelectSeq(splitLoop(text, 0, maxChars), LAMBDA part : part # <<>>)

\* flush() of pageToChunks for the buffer of one section, and the filter
\* chunks.filter(c => c.text.length >= 40) at its end
flushBlocks(buffer) ==
    LET text == trimAll(capNewlines(join(buffer, <<"\n">>), 1))
        parts == IF text = <<>> THEN <<>> ELSE splitToSize(text, MAX_CHUNK_CHARS)
    IN [i \in 1..Len(parts) |-> Block(trimAll(parts[i]), 0, TINY_CHUNK_CHARS)]

\* clampText of the legacy version: text.slice(0, maxChars).trim()
clampTextLegacy(text, maxChars) ==
    IF Len(text) <= maxChars THEN text ELSE trimAll(SubSeq(text, 1, maxChars))

\* the whole-page block of pageToChunks, when no content node is found
pageBlock(mainText) ==
    LET text == trimAll(collapseSpaces([i \in 1..Len(mainText) |->
                          IF isSpaceChar(mainText[i]) THEN " " ELSE mainText[i]]))
    IN IF text = <<>> THEN <<>>
       ELSE <<[text |-> clampTextLegacy(text, MAX_CHUNK_CHARS * 2), carried |-> 0,
               kept |-> TRUE]>>

\* pageToChunks for a page whose content nodes are paragraphs of one section;
\* without nodes, the whole-page block of the text of <main>
pageToChunks(nodes, mainText) ==
    LET texts == SelectSeq([i \in 1..Len(nodes) |-> trimAll(nodes[i])], LAMBDA t : t # <<>>)
    IN IF nodes = <<>> THEN pageBlock(mainText) ELSE flushBlocks(texts)

----------------------------------------------------------------------------
(* The helper functions applied on their own, to inputs drawn from pools.  *)

\* bounds of the inputs
MaxTokens == 3
MaxParas == 2
MaxGathered == 3

\* the characters of a path segment
SegmentChars(seg) ==
    CASE seg = "gigaverse" -> <<"g", "i", "g", "a", "v", "e", "r", "s", "e">>
      [] seg = "gigaverse-old" -> <<"g", "i", "g", "a", "v", "e", "r", "s", "e", "-", "o", "l", "d">>
      [] seg = "blog" -> <<"b", "l", "o", "g">>
      [] seg = "c" -> <<"c">>
      [] seg = "page-341044" -> <<"p", "a", "g", "e", "-", "3", "4", "1", "0", "4", "4">>
      [] seg = "page-1837297" -> <<"p", "a", "g", "e", "-", "1", "8", "3", "7", "2", "9", "7">>
      [] OTHER -> <<>>

\* URL.pathname
pathname(u) ==
    <<"/">> \o join([i \in 1..Len(u.path) |-> SegmentChars(u.path[i])], <<"/">>)
            \o [i \in 1..u.slashes |-> "/"]

\* the string ALLOWED_PREFIX
ALLOWED_PREFIX_TEXT == <<"/", "g", "i", "g", "a", "v", "e", "r", "s", "e">>

\* absolute URLs on and off the allowed host and prefix, and a malformed one
ScopeHrefs ==
    { Href("abs", Url(h, p, sl, q, f)) :
        h \in {ALLOWED_HOST, "evil.example", "glhfers.gitbook.io:8080"},
        p \in {<<>>, <<"gigaverse">>, <<"gigaverse", "page-341044">>,
               <<"gigaverse-old", "c">>, <<"blog", "gigaverse">>, <<"blog", "c">>},
        sl \in {0, 1}, q \in {"", "utm_source=x"}, f \in {"", "s1"} }
    \cup {Href("bad", NULL)}

\* pieces of page text
TokenPool ==
    { <<"p", "o", "w", "e", "r", "e", "d", " ", "b", "y", " ">>,
      <<"c", "o", "p", "y">>,
      <<" ", "g", "i", "t", "b", "o", "o", "k">>,
      <<"\n">>,
      <<"N", "e", "x", "t">>,
      <<"x", " ">>,
      <<NBSP>>,
      <<"h", "a", "s", "h", "t", "a", "g">> }

\* paragraphs: short, with an inner blank, longer than the target, massive,
\* and with a blank line inside
ParaPool ==
    { <<"a">>,
      <<"a", "b", "c">>,
      <<"d", "e", " ", "f", "g">>,
      <<"h", "i", "j", "k", "l", "m", "n">>,
      <<"o", "p", "q", "r", "s", "t", "u", "v", "w">>,
      <<"x", "y", "z", "a", "b", "\n", "\n", "c", "d", "e">> }

\* the text of <main> of a page without content nodes
MainTextPool ==
    { <<"a">>,
      <<"a", "b", "c", "d", "e", "f", "g", "h", " ", " ", "i", "j", "k", "l", "m", "n", "o", "p", "q", " ", "r", "s">> }

RECURSIVE concat(_)
concat(parts) == IF parts = <<>> THEN <<>> ELSE parts[1] \o concat(Tail(parts))

\* chunks as pageToChunks (legacy) returns them for two pages: a page titled
\* <<1, 2>> with two sections headed <<1>> (the same id twice) and one headed
\* <<3>>, and a page titled <<1>> with a section headed <<3>>
GatheredLegacy ==
    { [id |-> ChunkId(InScopeA, sec, 0), title |-> <<1, 2>>, section |-> sec,
       url |-> InScopeA, text |-> t] : sec \in {<<1>>, <<3>>}, t \in {1, 2} }
    \cup { [id |-> ChunkId(InScopeB, <<3>>, 0), title |-> <<1>>, section |-> <<3>>,
            url |-> InScopeB, text |-> 1] }

\* chunks as main (mjs) pushes them: the first chunk of the two pages whose
\* ids collide, and the two chunks of the start page
GatheredMjs ==
    { chunksOfMjs([title |-> <<1, 2>>, blocks |-> <<1>>], InScopeA)[1],
      chunksOfMjs([title |-> <<1>>, blocks |-> <<1>>], InScopeB)[1] }
    \cup Range(chunksOfMjs([title |-> <<1, 2>>, blocks |-> <<1, 1>>], START_URL))

\* no chunk twice: a chunk is pushed once
Distinct(cs) == \A i, j \in 1..Len(cs) : cs[i] = cs[j] => i = j

\* a chunk with its text followed by the query string
appendQuery(chunk, q) == [chunk EXCEPT !.text = @ \o q]

\* three chunks that differ in the field that holds the query string
fieldChunks(q, filler) ==
    << [title |-> q, section |-> filler, url |-> <<>>, text |-> filler],
       [title |-> filler, section |-> q, url |-> <<>>, text |-> filler],
       [title |-> filler, section |-> filler, url |-> <<>>, text |-> q] >>

CraftPotions == <<"h", "o", "w", " ", "d", "o", " ", "I", " ", "c", "r", "a", "f", "t", " ", "p", "o", "t", "i", "o", "n", "s">>

\* queries: one word, two words, the query of the crafting scenario, and one
\* that normalises to the empty string
ScoreQueries ==
    { <<"r", "o", "d">>,
      <<"c", "r", "a", "f", "t", " ", "p", "o", "t", "i", "o", "n", "s">>,
      CraftPotions,
      <<"?", "!">> }

FillerPool == {<<"z", "z", "z">>, <<"z", "z", "z", "z", "z", " ", "z", "z", "z", "z", "z", "z", "z">>}

\* chunks titled "Crafting" with section "Potions"
CraftingChunks ==
    { [ChunkCrafting EXCEPT !.text = t] : t \in {<<>>, ChunkCrafting.text, <<"z", "z", "z">>} }

\* chunks titled "Fishing Guide" that hold no word of CraftPotions; one has
\* words of which "craft" and "how" are parts
FishingChunks ==
    { [title |-> ChunkFishing.title, section |-> sec, url |-> ChunkFishing.url, text |-> t] :
        sec \in {ChunkFishing.section, <<"W", "i", "t", "c", "h", "c", "r", "a", "f", "t", " ", "S", "h", "o", "w", "s">>},
        t \in {<<>>, ChunkFishing.text} }

\* lists of chunks to score against a query: a chunk and the chunk with the
\* query appended, the three chunks of fieldChunks, a crafting chunk and a
\* fishing chunk
ScoreCalls ==
    {[kind |-> "append", q |-> q, chunks |-> <<c, appendQuery(c, q)>>] :
        q \in ScoreQueries, c \in ChunkPool}
    \cup {[kind |-> "fields", q |-> q, chunks |-> fieldChunks(q, f)] :
            q \in ScoreQueries \ {<<"?", "!">>}, f \in FillerPool}
    \cup {[kind |-> "pair", q |-> CraftPotions, chunks |-> <<c, f>>] :
            c \in CraftingChunks, f \in FishingChunks}

\* the limiter's entry of an address: up to RATE_LIMIT timestamps in ms, in the
\* order they were pushed; the times a request may come at
StampLists ==
    {[i \in 1..n |-> a + (i - 1) * d] :
        a \in {0, 1, 500}, d \in {0, 1, 250, 10000}, n \in {0, RATE_LIMIT - 1, RATE_LIMIT}}

RequestTimes == {0, 1, 999, 1000, 30000, 50001, 59999, 60000, 60001, 60500, 110000}

LimiterCalls ==
    {c \in {[map |-> <<[ip |-> "10.0.0.1", ts |-> l]>> \o other, ip |-> "10.0.0.1", t |-> t] :
                l \in StampLists,
                other \in {<<>>, <<[ip |-> "10.0.0.2", ts |-> <<0, 1>>]>>},
                t \in RequestTimes} :
        LET l == c.map[1].ts IN l = <<>> \/ c.t >= l[Len(l)]}

\* chunk sizes a run may be given: every target from 1 on, every overlap from
\* 0 on, overlaps of at least the target among them
MaxSliceTarget == 6
MaxSliceOverlap == 7

SliceCalls ==
    [text : ParaPool \cup MainTextPool, targetChars : 1..MaxSliceTarget,
     overlapChars : 0..MaxSliceOverlap]

Calls ==
    {[fn |-> "scope", arg |-> h] : h \in ScopeHrefs}
    \cup {[fn |-> "slice", arg |-> a] : a \in SliceCalls}
    \cup {[fn |-> "rateLimit", arg |-> a] : a \in LimiterCalls}
    \cup {[fn |-> "extractLinks", arg |-> hs] : hs \in SeqsUpTo(HrefPool, MaxLinks)}
    \cup {[fn |-> "cleanText", arg |-> concat(ts)] : ts \in SeqsUpTo(TokenPool, MaxTokens)}
    \cup {[fn |-> "chunk", arg |-> [paras |-> ps, main |-> <<>>]] :
            ps \in SeqsUpTo(ParaPool, MaxParas) \ {<<>>}}
    \cup {[fn |-> "chunk", arg |-> [paras |-> <<>>, main |-> t]] : t \in MainTextPool}
    \cup {[fn |-> "score", arg |-> a] : a \in ScoreCalls}
    \cup {[fn |-> "aggregate", arg |-> [v |-> "legacy", chunks |-> cs]] :
            cs \in {x \in SeqsUpTo(GatheredLegacy, MaxGathered) : Distinct(x)}}
    \cup {[fn |-> "aggregate", arg |-> [v |-> "mjs", chunks |-> cs]] :
            cs \in {x \in SeqsUpTo(GatheredMjs, MaxGathered) : Distinct(x)}}

NoCall == [fn |-> "none", arg |-> <<>>]

NoResult == [done |-> FALSE, mjs |-> <<>>, legacy |-> <<>>]

PureIdle == call = NoCall /\ returned = NoResult

PureInit == call \in Calls /\ returned = NoResult

\* the scope test of a URL: normalizeUrl(raw) of build_docs_index.mjs is not
\* null; isAllowed(urlStr) of the legacy version
ApplyScope ==
    /\ call.fn = "scope" /\ ~returned.done
    /\ returned' = [done |-> TRUE,
                  mjs |-> normalizeUrlMjs(call.arg, START_URL) # NULL,
                  legacy |-> isAllowed(Resolve(call.arg, START_URL))]
    /\ UNCHANGED call

ApplyExtractLinks ==
    /\ call.fn = "extractLinks" /\ ~returned.done
    /\ returned' = [done |-> TRUE,
                  mjs |-> extractLinks("mjs", call.arg, START_URL),
                  legacy |-> extractLinks("legacy", call.arg, START_URL)]
    /\ UNCHANGED call

\* cleanText exists in build_docs_index.mjs only
ApplyCleanText ==
    /\ call.fn = "cleanText" /\ ~returned.done
    /\ returned' = [done |-> TRUE, mjs |-> cleanText(call.arg), legacy |-> <<>>]
    /\ UNCHANGED call

\* the text handed to chunkByParagraphs: the paragraphs, blank lines between
chunkInput(arg) ==
    IF arg.paras # <<>> THEN join(arg.paras, <<"\n", "\n">>) ELSE arg.main

ApplyChunk ==
    /\ call.fn = "chunk" /\ ~returned.done
    /\ returned' = [done |-> TRUE,
                  mjs |-> chunkBlocks(chunkInput(call.arg), CHUNK_TARGET_CHARS,
                                      CHUNK_OVERLAP_CHARS),
                  legacy |-> pageToChunks(call.arg.paras, call.arg.main)]
    /\ UNCHANGED call

\* the scorers of the handler (makeScorer) and of the page script (scoreChunk
\* of app.js) applied to each chunk of the list
ApplyScore ==
    /\ call.fn = "score" /\ ~returned.done
    /\ returned' = [done |-> TRUE,
                  server |-> [i \in 1..Len(call.arg.chunks) |->
                                scoreChunk(call.arg.q, call.arg.chunks[i])],
                  client |-> [i \in 1..Len(call.arg.chunks) |->
                                scoreChunkClient(tokenize(call.arg.q), call.arg.chunks[i])]]
    /\ UNCHANGED call

\* rateLimit(ip) at time t, and again retryAfterSec seconds later with no
\* request in between
ApplyRateLimit ==
    /\ call.fn = "rateLimit" /\ ~returned.done
    /\ LET first == rateLimit(call.arg.map, call.arg.ip, call.arg.t)
       IN returned' = [done |-> TRUE,
                       first |-> first,
                       again |-> rateLimit(first.map, call.arg.ip,
                                           call.arg.t + first.retryAfterSec * 1000)]
    /\ UNCHANGED call

\* the loops that cut a long text: the hard split of chunkByParagraphs
\* (build_docs_index.mjs) and splitToSize (legacy), with the values of start
\* and, when the loop ends, what it produced
ApplySlice ==
    /\ call.fn = "slice" /\ ~returned.done
    /\ LET a == call.arg
           starts == sliceStarts(a.text, 0, a.targetChars, a.overlapChars, Len(a.text))
           parts == splitStarts(a.text, 0, a.targetChars, Len(a.text))
       IN returned' = [done |-> TRUE,
                       starts |-> starts,
                       parts |-> parts,
                       mjs |-> IF starts[Len(starts)] >= Len(a.text)
                                 THEN hardSlices(a.text, 0, a.targetChars, a.overlapChars)
                                 ELSE <<>>,
                       legacy |-> IF parts[Len(parts)] >= Len(a.text)
                                    THEN splitToSize(a.text, a.targetChars)
                                    ELSE <<>>]
    /\ UNCHANGED call

\* the end of main: allChunks (out) becomes the written collection
ApplyAggregate ==
    /\ call.fn = "aggregate" /\ ~returned.done
    /\ returned' = [done |-> TRUE,
                  mjs |-> IF call.arg.v = "mjs"
                            THEN writtenArtifact("mjs", call.arg.chunks) ELSE <<>>,
                  legacy |-> IF call.arg.v = "legacy"
                               THEN writtenArtifact("legacy", call.arg.chunks) ELSE <<>>]
    /\ UNCHANGED call

----------------------------------------------------------------------------
(* Properties of the helper functions *)

\* C12: the scope filter accepts an absolute URL exactly when its host is
\* ALLOWED_HOST and its pathname starts with ALLOWED_PREFIX.
C12_ScopeFilter ==
    (call.fn = "scope" /\ returned.done /\ call.arg.kind = "abs")
        => LET inScope == /\ call.arg.u.host = ALLOWED_HOST
                          /\ startsWith(pathname(call.arg.u), ALLOWED_PREFIX_TEXT)
           IN returned.mjs = inScope /\ returned.legacy = inScope

\* C12 witness: a URL under /gigaverse-old on the allowed host was accepted
C12_Witness ==
    /\ call.fn = "scope" /\ returned.done /\ call.arg.kind = "abs"
    /\ call.arg.u.path = <<"gigaverse-old", "c">>
    /\ returned.mjs /\ returned.legacy

\* C14: a malformed URL is answered with "out of scope" by the scope test; a
\* malformed href among the anchors of a page yields no link, nothing that is
\* not a URL is returned, and the other anchors yield what they yield without
\* it.
C14_MalformedRejected ==
    /\ (call.fn = "scope" /\ returned.done /\ call.arg.kind = "bad")
          => (returned.mjs = FALSE /\ returned.legacy = FALSE)
    /\ (call.fn = "extractLinks" /\ returned.done)
          => LET wellFormed == SelectSeq(call.arg, LAMBDA h : h.kind # "bad")
             IN /\ NULL \notin Range(returned.mjs) \cup Range(returned.legacy)
                /\ returned.mjs = extractLinks("mjs", wellFormed, START_URL)
                /\ returned.legacy = extractLinks("legacy", wellFormed, START_URL)

\* C14 witness: the link after a malformed href was extracted
C14_Witness ==
    /\ call.fn = "extractLinks" /\ returned.done
    /\ Len(call.arg) = 2 /\ call.arg[1].kind = "bad"
    /\ Len(returned.mjs) = 1 /\ Len(returned.legacy) = 1

\* C16: every emitted chunk is at least the minimum and at most the maximum
\* (target) chunk size long.
C16_ChunkSizeBounds ==
    (call.fn = "chunk" /\ returned.done)
        => /\ \A i \in 1..Len(keptTexts(returned.mjs)) :
                /\ Len(keptTexts(returned.mjs)[i]) >= MIN_CHUNK_CHARS
                /\ Len(keptTexts(returned.mjs)[i]) <= CHUNK_TARGET_CHARS
           /\ \A i \in 1..Len(keptTexts(returned.legacy)) :
                /\ Len(keptTexts(returned.legacy)[i]) >= TINY_CHUNK_CHARS
                /\ Len(keptTexts(returned.legacy)[i]) <= MAX_CHUNK_CHARS

\* C17: a single paragraph without a blank line that is longer than the
\* maximum chunk size comes out as at least two chunks, none longer than the
\* maximum.
C17_LongParagraphSplit ==
    (/\ call.fn = "chunk" /\ returned.done
     /\ Len(call.arg.paras) = 1
     /\ Len(splitBlankLines(call.arg.paras[1])) = 1)
        => /\ Len(call.arg.paras[1]) > CHUNK_TARGET_CHARS
                => /\ Len(keptTexts(returned.mjs)) >= 2
                   /\ \A i \in 1..Len(keptTexts(returned.mjs)) :
                         Len(keptTexts(returned.mjs)[i]) <= CHUNK_TARGET_CHARS
           /\ Len(call.arg.paras[1]) > MAX_CHUNK_CHARS
                => /\ Len(keptTexts(returned.legacy)) >= 2
                   /\ \A i \in 1..Len(keptTexts(returned.legacy)) :
                         Len(keptTexts(returned.legacy)[i]) <= MAX_CHUNK_CHARS

\* a text without its whitespace
stripSpace(s) == SelectSeq(s, LAMBDA c : ~isSpaceChar(c))

\* the blocks one after the other, each without the characters carried into it
RECURSIVE withoutCarry(_)
withoutCarry(blocks) ==
    IF blocks = <<>> THEN <<>>
    ELSE SubSeq(blocks[1].text, blocks[1].carried + 1, Len(blocks[1].text))
           \o withoutCarry(Tail(blocks))

\* C18 (as claimed): the emitted chunks, each without the overlap carried into
\* its head, give back the input text up to whitespace.
C18_ChunksReconstructText ==
    (call.fn = "chunk" /\ returned.done)
        => /\ stripSpace(withoutCarry(SelectSeq(returned.mjs, LAMBDA b : b.kept)))
                = stripSpace(chunkInput(call.arg))
           /\ stripSpace(withoutCarry(SelectSeq(returned.legacy, LAMBDA b : b.kept)))
                = stripSpace(IF call.arg.paras # <<>> THEN concat(call.arg.paras)
                             ELSE call.arg.main)

\* C18 (amended): the blocks the chunker forms, each without the overlap
\* carried into its head, give back the input text up to whitespace; the
\* chunks emitted are the blocks of at least the minimum size, a shorter block
\* is left out with its text; the whole-page block of the legacy version
\* holds the start of the page text, cut at twice the chunk size.
C18_BlocksReconstructText ==
    (call.fn = "chunk" /\ returned.done)
        => /\ stripSpace(withoutCarry(returned.mjs)) = stripSpace(chunkInput(call.arg))
           /\ \A i \in 1..Len(returned.mjs) :
                 returned.mjs[i].kept <=> Len(returned.mjs[i].text) >= MIN_CHUNK_CHARS
           /\ call.arg.paras # <<>>
                => /\ stripSpace(withoutCarry(returned.legacy))
                        = stripSpace(concat(call.arg.paras))
                   /\ \A i \in 1..Len(returned.legacy) :
                         /\ returned.legacy[i].carried = 0
                         /\ returned.legacy[i].kept
                              <=> Len(returned.legacy[i].text) >= TINY_CHUNK_CHARS
           /\ call.arg.paras = <<>>
                => /\ Len(returned.legacy) <= 1
                   /\ stripSpace(call.arg.main) # <<>> => Len(returned.legacy) = 1
                   /\ \A i \in 1..Len(returned.legacy) :
                         /\ Len(returned.legacy[i].text) <= 2 * MAX_CHUNK_CHARS
                         /\ startsWith(stripSpace(call.arg.main),
                                       stripSpace(returned.legacy[i].text))
                         /\ Len(call.arg.main) <= 2 * MAX_CHUNK_CHARS
                              => stripSpace(returned.legacy[i].text)
                                   = stripSpace(call.arg.main)

\* C18 witness: a massive paragraph was hard-split into overlapping slices and
\* the last block is below the minimum size
C18_Witness ==
    /\ call.fn = "chunk" /\ returned.done
    /\ Len(returned.mjs) >= 3
    /\ returned.mjs[2].carried > 0
    /\ ~returned.mjs[Len(returned.mjs)].kept

\* C19: cleaning a cleaned text changes nothing.
C19_CleanTextIdempotent ==
    (call.fn = "cleanText" /\ returned.done) => cleanText(returned.mjs) = returned.mjs

\* the written collection of an aggregate call
writtenOf == IF call.arg.v = "mjs" THEN returned.mjs ELSE returned.legacy

\* C21: of the gathered chunks with one id, the written collection holds
\* exactly one record, the chunk gathered last.
C21_LastSeenWins ==
    (call.fn = "aggregate" /\ returned.done)
        => \A i \in 1..Len(call.arg.chunks) :
              LET id == call.arg.chunks[i].id
                  lastAt == CHOOSE k \in 1..Len(call.arg.chunks) :
                              /\ call.arg.chunks[k].id = id
                              /\ \A j \in (k + 1)..Len(call.arg.chunks) :
                                    call.arg.chunks[j].id # id
                  kept == SelectSeq(writtenOf, LAMBDA c : c.id = id)
              IN kept = <<call.arg.chunks[lastAt]>>

\* title a sorts strictly before title b
LexLess(a, b) == LexLeq(a, b) /\ a # b

\* C22: adjacent records of the written collection are in the order of the
\* key (title, section).
C22_SortedByTitleSection ==
    (call.fn = "aggregate" /\ returned.done)
        => \A i \in 1..(Len(writtenOf) - 1) :
              LET a == writtenOf[i]
                  b == writtenOf[i + 1]
              IN \/ LexLess(a.title, b.title)
                 \/ a.title = b.title /\ LexLeq(a.section, b.section)

\* fraction a is greater than fraction b
FracGreater(a, b) == a.num * b.den > b.num * a.den

\* C26: a chunk with the query string appended to its text scores strictly
\* higher than the chunk itself, in the handler's scorer and in the page
\* script's.
C26_AppendedQueryScoresHigher ==
    (call.fn = "score" /\ returned.done /\ call.arg.kind = "append")
        => /\ returned.server[2] > returned.server[1]
           /\ FracGreater(returned.client[2], returned.client[1])

\* C27: of three chunks that are equal but for the field that holds the
\* query, the one with the query in its title scores higher than the one with
\* the query in its section, which scores higher than the one with the query
\* in its text.
C27_TitleAboveSectionAboveText ==
    (call.fn = "score" /\ returned.done /\ call.arg.kind = "fields")
        => /\ returned.server[1] > returned.server[2]
           /\ returned.server[2] > returned.server[3]

\* no field of the chunk contains a word of the query that a scorer looks for
\* (the tokens of at least 2 characters)
holdsNoQueryWord(chunk, q) ==
    \A i \in 1..Len(tokenize(q)) :
        /\ ~includes(normalize(chunk.title), tokenize(q)[i])
        /\ ~includes(normalize(chunk.section), tokenize(q)[i])
        /\ ~includes(normalize(chunk.text), tokenize(q)[i])

C31_FallbackBlock ==
    (call.fn = "chunk" /\ returned.done)
        => LET region == IF call.arg.paras # <<>> THEN join(call.arg.paras, <<" ">>)
                         ELSE call.arg.main
               noBlock == \/ call.arg.paras = <<>>
                          \/ keptTexts(flushBlocks(call.arg.paras)) = <<>>
           IN (stripSpace(region) # <<>> /\ noBlock)
                 => keptTexts(returned.legacy) = keptTexts(pageBlock(region))

\* C33: a denied request reports a retryAfterSec between 1 and 60, and the
\* next request of the same address, retryAfterSec seconds later with no
\* request in between, is allowed.
C33_RetryAfterIsEnough ==
    (call.fn = "rateLimit" /\ returned.done /\ ~returned.first.allowed)
        => /\ returned.first.retryAfterSec \in 1..(WINDOW_MS \div 1000)
           /\ returned.again.allowed

C33_Witness ==
    /\ call.fn = "rateLimit" /\ returned.done /\ ~returned.first.allowed
    /\ returned.first.retryAfterSec < WINDOW_MS \div 1000
    /\ (WINDOW_MS - (call.arg.t - returned.first.map[1].ts[1])) % 1000 # 0

\* start grows by at least 1 from each turn of a loop to the next, and the
\* loop has ended when start has reached the length
advances(starts, length) ==
    /\ \A i \in 1..(Len(starts) - 1) : starts[i + 1] >= starts[i] + 1
    /\ starts[Len(starts)] >= length

\* C39: for every target of at least 1 and every overlap of at least 0, the
\* overlaps of at least the target included, each turn of the hard-split loop
\* and of the loop of splitToSize advances start by at least 1, and both loops
\* end.
C39_LoopsAdvance ==
    (call.fn = "slice" /\ returned.done)
        => /\ advances(returned.starts, Len(call.arg.text))
           /\ advances(returned.parts, Len(call.arg.text))
           /\ Len(returned.mjs) = Len(returned.starts) - 1

C39_Witness ==
    /\ call.fn = "slice" /\ returned.done
    /\ call.arg.overlapChars > call.arg.targetChars
    /\ Len(returned.starts) > 3 /\ Len(returned.parts) > 3

----------------------------------------------------------------------------
(* Part IV: the chat page.  app.js (send, setBusy, wireChat), its earlier   *)
(* version part_002 and the first version part_001 (askAI, bindUI).         *)

MaxInFlight == 2

Scripts == {"app", "part_002", "part_001"}

\* what the user may have typed: nothing, blanks, a question
InputValues == {<<>>, <<" ">>, <<"r", "o", "d">>}

PageInit ==
    /\ script \in Scripts
    /\ ready = "loading"
    /\ inputValue = <<>>
    /\ inputDisabled = FALSE
    /\ sendDisabled = FALSE
    /\ inFlight = 0
    /\ outcome = "none"

\* the page is not open
PageIdle ==
    /\ script = "app"
    /\ ready = "loading"
    /\ inputValue = <<>>
    /\ inputDisabled = FALSE
    /\ sendDisabled = FALSE
    /\ inFlight = 0
    /\ outcome = "none"

\* loadDocs() settles
DocsLoad ==
    /\ ready = "loading"
    /\ \E ok \in BOOLEAN : ready' = IF ok THEN "yes" ELSE "no"
    /\ UNCHANGED <<script, inputValue, inputDisabled, sendDisabled, inFlight, outcome>>

\* the user edits the input, which a disabled input does not allow
TypeText ==
    /\ ~inputDisabled
    /\ \E text \in InputValues : inputValue' = text
    /\ UNCHANGED <<script, ready, inputDisabled, sendDisabled, inFlight, outcome>>

setBusyStays(isBusy) ==
    /\ sendDisabled' = (isBusy \/ sendDisabled)
    /\ inputDisabled' = (IF script = "part_001" THEN inputDisabled
                          ELSE isBusy \/ inputDisabled)

\* setBusy(isBusy) of app.js and part_002; part_001 sets askBtn.disabled only
setBusy(isBusy) ==
    /\ sendDisabled' = isBusy
    /\ inputDisabled' = IF script = "part_001" THEN inputDisabled ELSE isBusy

\* send() of wireChat and askAI(), up to the await of the fetch
send ==
    /\ inFlight < MaxInFlight
    /\ IF trim(inputValue) = <<>>
         THEN UNCHANGED <<inputValue, inputDisabled, sendDisabled, inFlight, outcome>>
       ELSE IF script = "app" /\ ready # "yes"
         THEN /\ outcome' = "notLoaded"
              /\ UNCHANGED <<inputValue, inputDisabled, sendDisabled, inFlight>>
       ELSE IF script = "part_002" /\ ready # "yes"
         THEN /\ inputValue' = <<>>
              /\ setBusy(FALSE)
              /\ outcome' = "notLoaded"
              /\ UNCHANGED inFlight
       ELSE /\ inputValue' = <<>>
            /\ setBusy(TRUE)
            /\ inFlight' = inFlight + 1
            /\ outcome' = "pending"
    /\ UNCHANGED <<script, ready>>

\* a click on the Ask button, which a disabled button does not dispatch
ClickAsk == ~sendDisabled /\ send

\* Enter pressed in the input, which a disabled input does not receive
PressEnter == ~inputDisabled /\ send

\* the fetch of /api/chat settles: an answer, a response that is not ok, or a
\* network error; the finally block runs
FetchSettles ==
    /\ inFlight > 0
    /\ inFlight' = inFlight - 1
    /\ \E how \in {"answer", "serverError", "networkError"} : outcome' = how
    /\ setBusy(FALSE)
    /\ UNCHANGED <<script, ready, inputValue>>

----------------------------------------------------------------------------
(* Properties of the chat page *)

\* C37: the chat page has at most one request to /api/chat in flight: while a
\* request is pending neither a click on Ask nor Enter starts another.
C37_OneRequestInFlight == inFlight <= 1

\* C38: after every submitted question, whether it was answered, failed or was
\* refused because the docs are not loaded, the input and the Ask button are
\* eventually enabled again.
C38_EnabledAgain ==
    /\ [](inFlight = 0 => ~inputDisabled /\ ~sendDisabled)
    /\ (inFlight > 0) ~> (~inputDisabled /\ ~sendDisabled)

C38_Witness ==
    /\ outcome \in {"serverError", "networkError", "notLoaded"}
    /\ inFlight = 0 /\ ~inputDisabled /\ ~sendDisabled
    /\ script # "part_001"

----------------------------------------------------------------------------
(* Specifications *)

\* the crawl script runs; the handler is idle
Init == CrawlInit /\ ChatInit /\ PureIdle /\ PageIdle

Next ==
    \/ Dequeue /\ UNCHANGED <<chatVars, pureVars, pageVars>>
    \/ FetchFail /\ UNCHANGED <<chatVars, pureVars, pageVars>>
    \/ FetchOk /\ UNCHANGED <<chatVars, pureVars, pageVars>>
    \/ ExtractThrows /\ UNCHANGED <<chatVars, pureVars, pageVars>>
    \/ Sleep /\ UNCHANGED <<chatVars, pureVars, pageVars>>
    \/ Finish /\ UNCHANGED <<chatVars, pureVars, pageVars>>

Spec == Init /\ [][Next]_vars

\* the handler serves requests; the crawl has not started
ChatSpecInit == ChatInit /\ CrawlInit /\ variant = "mjs" /\ PureIdle /\ PageIdle

ChatSpecNext ==
    \/ Receive /\ UNCHANGED <<crawlVars, pureVars, pageVars>>
    \/ IndexLoaded /\ UNCHANGED <<crawlVars, pureVars, pageVars>>
    \/ GroqReturns /\ UNCHANGED <<crawlVars, pureVars, pageVars>>
    \/ Reset /\ UNCHANGED <<crawlVars, pureVars, pageVars>>
    \/ Tick /\ UNCHANGED <<crawlVars, pureVars, pageVars>>

ChatSpec == ChatSpecInit /\ [][ChatSpecNext]_vars

LimiterSpecInit == ChatInit /\ CrawlInit /\ variant = "mjs" /\ PureIdle /\ PageIdle

LimiterSpecNext ==
    \/ LimiterReceive /\ UNCHANGED <<crawlVars, pureVars, pageVars>>
    \/ Reset /\ UNCHANGED <<crawlVars, pureVars, pageVars>>
    \/ Tick /\ UNCHANGED <<crawlVars, pureVars, pageVars>>

LimiterSpec == LimiterSpecInit /\ [][LimiterSpecNext]_vars

\* the helper functions applied to the inputs of the pools; the crawl and the
\* handler have not started
PureSpecInit == PureInit /\ CrawlInit /\ variant = "mjs" /\ ChatInit /\ PageIdle

PureSpecNext ==
    \/ ApplyScope /\ UNCHANGED <<crawlVars, chatVars, pageVars>>
    \/ ApplyExtractLinks /\ UNCHANGED <<crawlVars, chatVars, pageVars>>
    \/ ApplyCleanText /\ UNCHANGED <<crawlVars, chatVars, pageVars>>
    \/ ApplyChunk /\ UNCHANGED <<crawlVars, chatVars, pageVars>>
    \/ ApplyAggregate /\ UNCHANGED <<crawlVars, chatVars, pageVars>>
    \/ ApplyScore /\ UNCHANGED <<crawlVars, chatVars, pageVars>>
    \/ ApplyRateLimit /\ UNCHANGED <<crawlVars, chatVars, pageVars>>
    \/ ApplySlice /\ UNCHANGED <<crawlVars, chatVars, pageVars>>

PureSpec == PureSpecInit /\ [][PureSpecNext]_vars

\* the chat page in a browser; the crawl, the handler and the helper calls have
\* not started
PageSpecInit == PageInit /\ CrawlInit /\ variant = "mjs" /\ ChatInit /\ PureIdle

PageSpecNext ==
    \/ DocsLoad /\ UNCHANGED <<crawlVars, chatVars, pureVars>>
    \/ TypeText /\ UNCHANGED <<crawlVars, chatVars, pureVars>>
    \/ ClickAsk /\ UNCHANGED <<crawlVars, chatVars, pureVars>>
    \/ PressEnter /\ UNCHANGED <<crawlVars, chatVars, pureVars>>
    \/ FetchSettles /\ UNCHANGED <<crawlVars, chatVars, pureVars>>

PageSpec == PageSpecInit /\ [][PageSpecNext]_vars

\* the same page when every fetch of /api/chat settles: the browser resolves or
\* rejects the promise of each fetch
PageLiveSpec ==
    /\ PageSpecInit
    /\ [][PageSpecNext]_vars
    /\ WF_vars(FetchSettles /\ UNCHANGED <<crawlVars, chatVars, pureVars>>)

====
